---- MODULE Spec2Model ----
(***************************************************************************)
(* Model of the PARA InfoSystem API core: the in-memory token table of     *)
(* auth.TokenManager and the ownership-scoped particle repository of       *)
(* services.ParticleService on top of the SQLite tables of database.py.    *)
(***************************************************************************)
EXTENDS Integers, Sequences, FiniteSets, Bags, TLC

VARIABLES
    now,        \* time.time(): wall clock of the token manager, in seconds
    tokens,     \* auth.tokens: token -> [username, created, last_used]
    issued,     \* history: token -> [username, created] of every create_token
    revoked,    \* history: tokens hit by revoke_token / revoke_user_tokens
    aret,       \* return value of the last TokenManager call
    utcnow,     \* datetime.utcnow(): wall clock of the services, in microseconds
    users,      \* table users: username -> [password_hash, created]
    particles,  \* table particles: id -> row
    seq,        \* sqlite_sequence of particles (AUTOINCREMENT high-water mark)
    scan,       \* order in which the engine's plan visits rows of equal sort key
    deleted,    \* history: ids for which delete_particle returned True
    ret,        \* outcome of the last ParticleService call and of its route
    validated,  \* the last request body and what ParticleCreate / ParticleUpdate made of it
    inflight,   \* worker -> the call it is running (create_user, validate_token), and how it ended
    writer,     \* the connection holding the database's write lock, 0 for none
    password_manager, \* a password, another one, and what hash_password / verify_password made of them
    db_manager, \* the block that runs on a connection of DatabaseManager, and how it ended
    particles_fts \* index of the virtual table particles_fts: bag of [rowid, title, content]

avars == <<now, tokens, issued, revoked, aret>>
rvars == <<utcnow, users, particles, seq, scan, deleted, ret, particles_fts>>
mvars == <<validated, inflight, writer, password_manager, db_manager>>
vars == <<now, tokens, issued, revoked, aret,
          utcnow, users, particles, seq, scan, deleted, ret, validated,
          inflight, writer, password_manager, db_manager, particles_fts>>

None == "None"

Usernames == {"alice", "bob"}

(***************************************************************************)
(* Session / token manager (auth.py)                                       *)
(***************************************************************************)
MaxTokens == 2
MaxTicks == 1

TokenIds == 1..MaxTokens

token_expire_hours == 24
expire_seconds == token_expire_hours * 3600

\* the instants the model observes: a few seconds after start, and the same
\* a full expiry period later
Instants == {d * expire_seconds + s : d \in 0..1, s \in 0..MaxTicks}

\* restriction of a table to a set of keys (del tokens[token] for the rest)
Restrict(f, S) == [k \in S |-> f[k]]

\* expiry measured from the last use instead of the creation
is_token_expired_sliding(token_data, clock) ==
    clock - token_data.last_used > expire_seconds

\* a token is expired from the second its age reaches the limit
is_token_expired_at_limit(token_data, clock) ==
    IF DOMAIN token_data = {} \/ "created" \notin DOMAIN token_data THEN TRUE
    ELSE clock - token_data.created >= expire_seconds

\* a token that was used within the period is not expired
is_token_expired_unused(token_data, clock) ==
    IF DOMAIN token_data = {} \/ "created" \notin DOMAIN token_data THEN TRUE
    ELSE /\ clock - token_data.created > expire_seconds
         /\ clock - token_data.last_used > expire_seconds

\* TokenManager.is_token_expired at time clock; token_data is a dict, here a
\* function from its keys
is_token_expired(token_data, clock) ==
    IF DOMAIN token_data = {} \/ "created" \notin DOMAIN token_data THEN TRUE
    ELSE clock - token_data.created > expire_seconds

\* the dicts handed to is_token_expired: the entries create_token writes,
\* and every dict that holds only some of their keys
TokenDataInputs ==
    {Restrict([username |-> u, created |-> c, last_used |-> c], keys) :
        u \in Usernames, c \in 0..MaxTicks,
        keys \in SUBSET {"username", "created", "last_used"}}

\* every token of the token's user goes with it
revoke_token_table_user(tbl, token) ==
    IF token \in DOMAIN tbl
    THEN Restrict(tbl, {t \in DOMAIN tbl : tbl[t].username # tbl[token].username})
    ELSE tbl

revoke_token_table(tbl, token) ==
    IF token \in DOMAIN tbl THEN Restrict(tbl, DOMAIN tbl \ {token}) ELSE tbl

\* only one of the user's tokens is collected
user_tokens_first(tbl, username) ==
    LET all == {t \in DOMAIN tbl : tbl[t].username = username}
    IN IF all = {} THEN {} ELSE {CHOOSE t \in all : \A o \in all : t <= o}

user_tokens(tbl, username) ==
    {t \in DOMAIN tbl : tbl[t].username = username}

revoke_user_tokens_table(tbl, username) ==
    Restrict(tbl, DOMAIN tbl \ user_tokens(tbl, username))

\* a token counts as expired when it has not been used for the period
expired_tokens_idle(tbl, clock) ==
    {t \in DOMAIN tbl : clock - tbl[t].last_used > expire_seconds}

expired_tokens(tbl, clock) ==
    {t \in DOMAIN tbl : is_token_expired(tbl[t], clock)}

\* nothing is swept
cleanup_expired_tokens_table_none(tbl, clock) == tbl

cleanup_expired_tokens_table(tbl, clock) ==
    Restrict(tbl, DOMAIN tbl \ expired_tokens(tbl, clock))

\* every entry counts as a session
active_sessions_all(tbl, clock) == Cardinality(DOMAIN tbl)

\* len([token ... if not self.is_token_expired(data)])
active_sessions(tbl, clock) ==
    Cardinality({t \in DOMAIN tbl : ~is_token_expired(tbl[t], clock)})

\* what validate_token(token) returns on table tbl at time clock
validate_token_result(tbl, token, clock) ==
    IF token \notin DOMAIN tbl THEN None
    ELSE IF is_token_expired(tbl[token], clock) THEN None
    ELSE tbl[token].username

\* a successful validation renews the token: created is set as well
validate_token_table_renewing(tbl, token, clock) ==
    IF token \notin DOMAIN tbl THEN tbl
    ELSE IF is_token_expired(tbl[token], clock) THEN revoke_token_table(tbl, token)
    ELSE [tbl EXCEPT ![token].last_used = clock, ![token].created = clock]

\* an expired token sets off a sweep of the table
validate_token_table_sweeping(tbl, token, clock) ==
    IF token \notin DOMAIN tbl THEN tbl
    ELSE IF is_token_expired(tbl[token], clock)
    THEN Restrict(tbl, {t \in DOMAIN tbl : ~is_token_expired(tbl[t], clock)})
    ELSE [tbl EXCEPT ![token].last_used = clock]

\* the table validate_token(token) leaves behind
validate_token_table(tbl, token, clock) ==
    IF token \notin DOMAIN tbl THEN tbl
    ELSE IF is_token_expired(tbl[token], clock) THEN revoke_token_table(tbl, token)
    ELSE [tbl EXCEPT ![token].last_used = clock]

ARet(op, token, user, count) ==
    [op |-> op, token |-> token, user |-> user, count |-> count]

AuthInit ==
    /\ now = 0
    /\ tokens = <<>>
    /\ issued = <<>>
    /\ revoked = {}
    /\ aret = ARet("init", 0, None, 0)

\* secrets.token_hex(32) is modelled as a value never returned before
\* a new token takes the place of the user's earlier ones
store_token_single_session(tbl, token, username, clock) ==
    [t \in (DOMAIN tbl \ user_tokens(tbl, username)) \cup {token} |->
        IF t = token
        THEN [username |-> username, created |-> clock, last_used |-> clock]
        ELSE tbl[t]]

\* tokens[token] = {"username": ..., "created": time.time(), "last_used": time.time()}
store_token(tbl, token, username, clock) ==
    [t \in DOMAIN tbl \cup {token} |->
        IF t = token
        THEN [username |-> username, created |-> clock, last_used |-> clock]
        ELSE tbl[t]]

create_token_call(username) ==
    \E token \in TokenIds \ DOMAIN issued :
        LET stored == store_token(tokens, token, username, now)
        IN /\ tokens' = cleanup_expired_tokens_table(stored, now)
           /\ issued' = [t \in DOMAIN issued \cup {token} |->
                          IF t = token
                          THEN [username |-> username, created |-> now]
                          ELSE issued[t]]
           /\ aret' = ARet("create_token", token, username, 0)
           /\ UNCHANGED <<now, revoked>>

create_token(username) ==
    create_token_call(username) /\ UNCHANGED <<rvars, mvars>>

validate_token(token) ==
    /\ tokens' = validate_token_table(tokens, token, now)
    /\ aret' = ARet("validate_token", token,
                    validate_token_result(tokens, token, now), 0)
    /\ UNCHANGED <<now, issued, revoked>>
    /\ UNCHANGED <<rvars, mvars>>

revoke_token(token) ==
    /\ tokens' = revoke_token_table(tokens, token)
    /\ revoked' = revoked \cup ({token} \cap DOMAIN issued)
    /\ aret' = ARet("revoke_token", token, None,
                    IF token \in DOMAIN tokens THEN 1 ELSE 0)
    /\ UNCHANGED <<now, issued>>
    /\ UNCHANGED <<rvars, mvars>>

revoke_user_tokens(username) ==
    /\ tokens' = revoke_user_tokens_table(tokens, username)
    /\ revoked' = revoked \cup {t \in DOMAIN issued : issued[t].username = username}
    /\ aret' = ARet("revoke_user_tokens", 0, username,
                    Cardinality(user_tokens(tokens, username)))
    /\ UNCHANGED <<now, issued>>
    /\ UNCHANGED <<rvars, mvars>>

cleanup_expired_tokens ==
    /\ tokens' = cleanup_expired_tokens_table(tokens, now)
    /\ aret' = ARet("cleanup_expired_tokens", 0, None,
                    Cardinality(expired_tokens(tokens, now)))
    /\ UNCHANGED <<now, issued, revoked>>
    /\ UNCHANGED <<rvars, mvars>>

get_active_sessions ==
    /\ aret' = ARet("get_active_sessions", 0, None, active_sessions(tokens, now))
    /\ UNCHANGED <<now, tokens, issued, revoked>>
    /\ UNCHANGED <<rvars, mvars>>

\* the wall clock advances between calls
Tick ==
    /\ \E t \in Instants : t > now /\ now' = t
    /\ UNCHANGED <<tokens, issued, revoked, aret>>
    /\ UNCHANGED <<rvars, mvars>>

\* a dict and a clock are at hand
ExpiryInit ==
    /\ now \in Instants
    /\ tokens = <<>>
    /\ issued = <<>>
    /\ revoked = {}
    /\ \E token_data \in TokenDataInputs :
          aret = [op |-> "token_data", token |-> 0, user |-> None, count |-> 0,
                  token_data |-> token_data, expired |-> FALSE]

\* token_manager.is_token_expired(token_data)
is_token_expired_call ==
    /\ aret.op = "token_data"
    /\ aret' = [aret EXCEPT !.op = "is_token_expired",
                            !.expired = is_token_expired(aret.token_data, now)]
    /\ UNCHANGED <<now, tokens, issued, revoked>>
    /\ UNCHANGED <<rvars, mvars>>

ExpiryNext == is_token_expired_call

AuthNext ==
    \/ \E u \in Usernames :
          /\ create_token(u)
          \* token values are opaque: they are named in the order of issue
          /\ aret'.token = Cardinality(DOMAIN issued) + 1
    \/ \E t \in TokenIds : validate_token(t)
    \/ \E t \in TokenIds : revoke_token(t)
    \/ \E u \in Usernames : revoke_user_tokens(u)
    \/ cleanup_expired_tokens
    \/ get_active_sessions
    \/ Tick

(***************************************************************************)
(* Particle repository (services.py, database.py) and its routes           *)
(***************************************************************************)
MaxParticles == 2
MaxUpdated == 1
MaxListed == 3
MaxCounted == 3
MaxMicros == 1
MaxLimit == 2

MicrosPerSec == 1000000

\* the instants at which the services read the clock: on the second and a
\* few microseconds after it
RepoInstants == 0..MaxMicros

\* datetime.isoformat(): fixed-width fields, the fraction is left out when
\* the microsecond is 0
isoformat(t) ==
    IF t % MicrosPerSec = 0
    THEN <<t \div MicrosPerSec>>
    ELSE <<t \div MicrosPerSec, t % MicrosPerSec>>

\* SQLite comparison of two TEXT values (memcmp, a proper prefix is smaller)
RECURSIVE TextLess(_, _)
TextLess(a, b) ==
    IF a = <<>> THEN b # <<>>
    ELSE IF b = <<>> THEN FALSE
    ELSE IF Head(a) # Head(b) THEN Head(a) < Head(b)
    ELSE TextLess(Tail(a), Tail(b))

\* ','.join(tags): the tags' characters with a comma between two tags
RECURSIVE join(_)
join(tags) ==
    IF tags = <<>> THEN <<>>
    ELSE IF Len(tags) = 1 THEN Head(tags)
    ELSE Head(tags) \o <<",">> \o join(Tail(tags))

\* str.split(',') on a non-empty string; cur is the piece read so far
RECURSIVE split(_, _)
split(str, cur) ==
    IF str = <<>> THEN <<cur>>
    ELSE IF Head(str) = "," THEN <<cur>> \o split(Tail(str), <<>>)
    ELSE split(Tail(str), cur \o <<Head(str)>>)

\* the tags column is returned as one tag
tags_of_unsplit(str) == IF str = <<>> THEN <<>> ELSE <<str>>

\* tags=particle[3].split(',') if particle[3] else []
tags_of(str) == IF str = <<>> THEN <<>> ELSE split(str, <<>>)

Sections == {"Projects", "Areas", "Resources", "Archives"}

\* validated ParticleCreate bodies
CreateInputs ==
    { [title |-> "T", content |-> "C", tags |-> <<<<"a">>, <<"b", "-", "1">>>>,
        section |-> "Projects"] }

\* a validated ParticleCreate body without tags
Untagged == [title |-> "T", content |-> "C", tags |-> <<>>, section |-> "Projects"]

\* validated ParticleUpdate bodies; None marks an absent field, and an absent
\* tags field is written NoTags
NoTags == <<<<None>>>>
TitleOnly == [title |-> "T2", content |-> None, tags |-> NoTags, section |-> None]
UpdateInputs ==
    { [title |-> None, content |-> None, tags |-> NoTags, section |-> None],
      TitleOnly,
      [title |-> None, content |-> "C2", tags |-> <<>>, section |-> None],
      [title |-> None, content |-> None, tags |-> NoTags, section |-> "Archives"],
      [title |-> "T", content |-> "C", tags |-> <<<<"a">>, <<"b", "-", "1">>>>,
        section |-> "Projects"] }

ParticleIds == 1..MaxParticles

NotFoundMsg == "Particle not found or access denied"

\* "not found" in str(e).lower(), over the messages the services raise
contains_not_found(msg) == msg = NotFoundMsg

\* "access denied" in error_msg.lower()
contains_access_denied(msg) == msg = NotFoundMsg

\* the owner is left out of the WHERE clause
where_id_any_user(tbl, particle_id, username) ==
    {i \in DOMAIN tbl : i = particle_id}

\* rows selected by  WHERE id = ? AND user = ?
where_id_user(tbl, particle_id, username) ==
    {i \in DOMAIN tbl : i = particle_id /\ tbl[i].user = username}

\* ParticleResponse built from a row
ParticleResponse(tbl, i) ==
    [id |-> i, title |-> tbl[i].title, content |-> tbl[i].content,
     tags |-> tags_of(tbl[i].tags), section |-> tbl[i].section,
     user |-> tbl[i].user, created |-> tbl[i].created,
     updated |-> tbl[i].updated]

\* service outcome: the value returned, or the exception raised
Ok(value) == [kind |-> "ok", msg |-> "", value |-> value]
Raise(kind, msg) == [kind |-> kind, msg |-> msg, value |-> <<>>]

\* a row of another owner is reported as forbidden
get_particle_by_id_outcome_forbidden(tbl, particle_id, username) ==
    LET rows == where_id_user(tbl, particle_id, username)
    IN IF rows # {}
       THEN Ok(<<ParticleResponse(tbl, CHOOSE i \in rows : TRUE)>>)
       ELSE IF particle_id \in DOMAIN tbl
       THEN Raise("ServiceError", "Access denied")
       ELSE Raise("ServiceError", NotFoundMsg)

get_particle_by_id_outcome(tbl, particle_id, username) ==
    LET rows == where_id_user(tbl, particle_id, username)
    IN IF rows = {}
       THEN Raise("ServiceError", NotFoundMsg)
       ELSE Ok(<<ParticleResponse(tbl, CHOOSE i \in rows : TRUE)>>)

\* routes.get_particle: every ServiceError becomes 404 with its message
get_particle_route(out) ==
    IF out.kind = "ok" THEN [status |-> 200, detail |-> ""]
    ELSE [status |-> 404, detail |-> out.msg]

\* the message is compared with "not found" as a whole
update_particle_route_exact(out) ==
    IF out.kind = "ok" THEN [status |-> 200, detail |-> ""]
    ELSE [status |-> IF out.msg = "not found" THEN 404 ELSE 400,
          detail |-> out.msg]

\* routes.update_particle: 404 if the message says "not found", else 400
update_particle_route(out) ==
    IF out.kind = "ok" THEN [status |-> 200, detail |-> ""]
    ELSE [status |-> IF contains_not_found(out.msg) THEN 404 ELSE 400,
          detail |-> out.msg]

\* routes.delete_particle: every ServiceError becomes 404
delete_particle_route(out) ==
    IF out.kind = "ok" THEN [status |-> 200, detail |-> ""]
    ELSE [status |-> 404,
          detail |-> IF contains_not_found(out.msg) \/ contains_access_denied(out.msg)
                     THEN NotFoundMsg ELSE out.msg]

\* routes.create_particle: a ServiceError becomes 400; sqlite3.IntegrityError
\* is not a ServiceError and leaves the route unhandled
create_particle_route(out) ==
    IF out.kind = "ok" THEN [status |-> 201, detail |-> ""]
    ELSE IF out.kind = "ServiceError" THEN [status |-> 400, detail |-> out.msg]
    ELSE [status |-> 500, detail |-> "Internal Server Error"]

NoBody == [title |-> None, content |-> None, tags |-> NoTags, section |-> None]
NoPage == [section |-> None, limit |-> 0, offset |-> 0]

\* the call (operation, id, caller, request body, query parameters), what
\* the service returned or raised, and the response of the route
Ret(op, particle_id, username, req, page, out, http) ==
    [op |-> op, id |-> particle_id, user |-> username, req |-> req,
     page |-> page, kind |-> out.kind, msg |-> out.msg, value |-> out.value,
     status |-> http.status, detail |-> http.detail]

(***************************************************************************)
(* Request models (models.py)                                              *)
(***************************************************************************)
MaxTagItems == 3

max_tags_per_particle == 10
max_tag_length == 50

\* a string is a sequence of characters
LowerCase == <<"a", "b", "c", "d", "e", "f", "g", "h", "i", "j", "k", "l", "m",
               "n", "o", "p", "q", "r", "s", "t", "u", "v", "w", "x", "y", "z">>
UpperCase == <<"A", "B", "C", "D", "E", "F", "G", "H", "I", "J", "K", "L", "M",
               "N", "O", "P", "Q", "R", "S", "T", "U", "V", "W", "X", "Y", "Z">>
Digits == {"0", "1", "2", "3", "4", "5", "6", "7", "8", "9"}
Whitespace == {" ", "\t", "\n"}

\* str.strip(): leading and trailing whitespace removed
RECURSIVE lstrip(_)
lstrip(str) ==
    IF str # <<>> /\ Head(str) \in Whitespace THEN lstrip(Tail(str)) ELSE str

RECURSIVE rstrip(_)
rstrip(str) ==
    IF str # <<>> /\ str[Len(str)] \in Whitespace
    THEN rstrip(SubSeq(str, 1, Len(str) - 1))
    ELSE str

strip(str) == rstrip(lstrip(str))

\* str.lower() on the characters a tag may hold
lower(str) ==
    [k \in DOMAIN str |->
        IF \E n \in DOMAIN UpperCase : UpperCase[n] = str[k]
        THEN LowerCase[CHOOSE n \in DOMAIN UpperCase : UpperCase[n] = str[k]]
        ELSE str[k]]

\* re.match(r'^[a-zA-Z0-9_-]+$', tag)
match_tag_chars(tag) ==
    /\ tag # <<>>
    /\ \A k \in DOMAIN tag :
          \/ \E n \in DOMAIN LowerCase : LowerCase[n] = tag[k]
          \/ \E n \in DOMAIN UpperCase : UpperCase[n] = tag[k]
          \/ tag[k] \in Digits \cup {"_", "-"}

\* first loop of validate_tags: strip, skip the empty ones, raise on the
\* first tag that is too long or holds a character outside the class
RECURSIVE cleaned_tags(_)
cleaned_tags(v) ==
    IF v = <<>> THEN Ok(<<>>)
    ELSE LET tag == strip(Head(v))
         IN IF tag = <<>> THEN cleaned_tags(Tail(v))
            ELSE IF Len(tag) > max_tag_length
            THEN Raise("ValueError", "exceeds character limit")
            ELSE IF ~match_tag_chars(tag)
            THEN Raise("ValueError", "contains invalid characters")
            ELSE LET rest == cleaned_tags(Tail(v))
                 IN IF rest.kind = "ok" THEN Ok(<<tag>> \o rest.value) ELSE rest

\* the kept tags are put in front of the list
RECURSIVE unique_tags_prepend(_, _)
unique_tags_prepend(tags, seen) ==
    IF tags = <<>> THEN <<>>
    ELSE IF lower(Head(tags)) \in seen
    THEN unique_tags_prepend(Tail(tags), seen)
    ELSE unique_tags_prepend(Tail(tags), seen \cup {lower(Head(tags))})
            \o <<Head(tags)>>

\* the lowered tag is kept instead of the tag
RECURSIVE unique_tags_lowered(_, _)
unique_tags_lowered(tags, seen) ==
    IF tags = <<>> THEN <<>>
    ELSE IF lower(Head(tags)) \in seen
    THEN unique_tags_lowered(Tail(tags), seen)
    ELSE <<lower(Head(tags))>>
            \o unique_tags_lowered(Tail(tags), seen \cup {lower(Head(tags))})

\* second loop of validate_tags: a tag is kept unless its lowered form was
\* seen before
RECURSIVE unique_tags(_, _)
unique_tags(tags, seen) ==
    IF tags = <<>> THEN <<>>
    ELSE IF lower(Head(tags)) \in seen
    THEN unique_tags(Tail(tags), seen)
    ELSE <<Head(tags)>>
            \o unique_tags(Tail(tags), seen \cup {lower(Head(tags))})

\* ParticleCreate.validate_tags
validate_tags(v) ==
    IF v = <<>> THEN Ok(<<>>)
    ELSE LET cleaned == cleaned_tags(v)
         IN IF cleaned.kind = "ok"
            THEN Ok(unique_tags(cleaned.value, {}))
            ELSE cleaned

\* the lower-case spelling of the first section is let through
validate_section_lenient(v) ==
    IF v \in Sections \cup {"projects"} THEN Ok(v)
    ELSE Raise("ValueError", "Section must be one of")

\* ParticleCreate.validate_section
validate_section(v) ==
    IF v \in Sections THEN Ok(v) ELSE Raise("ValueError", "Section must be one of")

\* a ValueError of a validator reaches the caller as a ValidationError
ValidationError(out) ==
    IF out.kind = "ok" THEN out ELSE Raise("ValidationError", out.msg)

TooManyItems == Raise("ValidationError", "List should have at most 10 items")

\* the item limit is checked on the validator's result
ParticleCreate_tags_after(v) ==
    LET out == ValidationError(validate_tags(v))
    IN IF out.kind = "ok" /\ Len(out.value) > max_tags_per_particle
       THEN TooManyItems ELSE out

\* field tags of ParticleCreate: the list is checked against max_items, then
\* @validator('tags') runs on it
ParticleCreate_tags(v) ==
    IF Len(v) > max_tags_per_particle THEN TooManyItems
    ELSE ValidationError(validate_tags(v))

\* field tags of ParticleUpdate: @validator('tags', pre=True) runs on the raw
\* value, then its result is checked against max_items
ParticleUpdate_tags(v) ==
    LET out == ValidationError(validate_tags(v))
    IN IF out.kind = "ok" /\ Len(out.value) > max_tags_per_particle
       THEN TooManyItems ELSE out

\* field section of both models: @validator('section')
ParticleCreate_section(v) == ValidationError(validate_section(v))

ParticleUpdate_section(v) == ValidationError(ParticleCreate_section(v))

\* the model is built when every field validates
Model(tags, section) ==
    IF tags.kind # "ok" THEN tags
    ELSE IF section.kind # "ok" THEN section
    ELSE Ok([tags |-> tags.value, section |-> section.value])

\* ParticleCreate: tags defaults to [], section is required
ParticleCreate_outcome(body) ==
    Model(IF "tags" \in DOMAIN body THEN ParticleCreate_tags(body.tags)
          ELSE Ok(<<>>),
          IF "section" \in DOMAIN body THEN ParticleCreate_section(body.section)
          ELSE Raise("ValidationError", "Field required"))

\* ParticleUpdate: a field that is not given is None
ParticleUpdate_outcome(body) ==
    Model(IF "tags" \in DOMAIN body THEN ParticleUpdate_tags(body.tags)
          ELSE Ok(NoTags),
          IF "section" \in DOMAIN body THEN ParticleUpdate_section(body.section)
          ELSE Ok(None))

\* the strings 'a' * n
Repeat(c, n) == [k \in 1..n |-> c]

\* n tags that differ from one another: 'a', 'aa', 'aaa', ...
Distinct(n) == [k \in 1..n |-> Repeat("a", k)]

\* tags as clients send them: plain, differing in case only, padded, empty,
\* blank, with a character outside the class
RawTags ==
    { <<"a">>, <<"A">>, <<" ", "a", "\t">>, <<>>, <<" ">>, <<"b", "-", "1">>,
      <<"B", "-", "1">>, <<"a", " ", "b">>, <<"_", "!">> }

\* tags at the length limit, beyond it, and at it once stripped
LongTags ==
    { Repeat("a", max_tag_length), Repeat("a", max_tag_length + 1),
      <<" ">> \o Repeat("a", max_tag_length) \o <<"\n">> }

RECURSIVE ListsUpTo(_, _)
ListsUpTo(S, n) ==
    IF n = 0 THEN {<<>>}
    ELSE LET shorter == ListsUpTo(S, n - 1)
         IN shorter \cup {<<x>> \o l : x \in S, l \in {m \in shorter : Len(m) = n - 1}}

\* tag lists: the short ones over RawTags, one tag at the length limit, and
\* lists around the item limit, made of distinct tags followed by a short tail
RawTagLists ==
    ListsUpTo(RawTags, MaxTagItems)
        \cup {<<t>> : t \in LongTags}
        \cup {Distinct(n) \o l :
                 n \in (max_tags_per_particle - 1)..(max_tags_per_particle + 1),
                 l \in ListsUpTo({<<"a">>, <<"A", "A">>, <<>>, <<"z">>}, MaxTagItems)}

RawSections == Sections \cup {"projects", "Inbox", ""}

\* request bodies: every tag list with a valid section, every section with a
\* valid tag list
RawBodies ==
    {[tags |-> l, section |-> "Projects"] : l \in RawTagLists}
        \cup {[tags |-> <<<<"a">>>>, section |-> x] : x \in RawSections}
        \cup {[section |-> x] : x \in RawSections}
        \cup {[tags |-> l] : l \in ListsUpTo(RawTags, 1)}

\* a request body that no model has been built from yet
Request(body) == [model |-> "request", body |-> body, out |-> Ok(<<>>)]

\* the request workers that can run create_user side by side
Workers == {1, 2}

\* a worker that has not been handed a registration
\* the place of a hash that has not been computed
NoHash == [scheme |-> "", salt |-> 0, digest |-> <<>>]

Idle == [phase |-> "idle", username |-> "", password |-> <<>>,
         password_hash |-> NoHash, created |-> <<>>, free |-> FALSE,
         out |-> Ok(<<>>)]

\* no password has been handed to the password manager
Unused == [backend |-> "", P |-> <<>>, Q |-> <<>>, hashes |-> <<>>,
           verified |-> <<>>]

\* no call is in flight, no connection holds the write lock, and the
\* password manager has not been used
\* no block is running: self._connection = None
Closed == [phase |-> "closed", form |-> "", connection |-> <<>>, before |-> <<>>,
           statements |-> <<>>, exc |-> ""]

CallsIdle ==
    /\ inflight = [w \in Workers |-> Idle]
    /\ writer = 0
    /\ password_manager = Unused
    /\ db_manager = Closed

\* no request body is at hand
ModelsIdle == validated = Request([section |-> ""]) /\ CallsIdle

\* a request body has arrived
ModelsInit == (\E body \in RawBodies : validated = Request(body)) /\ CallsIdle

\* ParticleCreate(**body)
ParticleCreate ==
    /\ validated' = [model |-> "ParticleCreate", body |-> validated.body,
                     out |-> ParticleCreate_outcome(validated.body)]
    /\ UNCHANGED <<avars, rvars, inflight, writer, password_manager, db_manager>>

\* ParticleUpdate(**body)
ParticleUpdate ==
    /\ validated' = [model |-> "ParticleUpdate", body |-> validated.body,
                     out |-> ParticleUpdate_outcome(validated.body)]
    /\ UNCHANGED <<avars, rvars, inflight, writer, password_manager, db_manager>>

\* both models built from the body
ModelsNext ==
    \/ ParticleCreate
    \/ ParticleUpdate

RepoInit ==
    /\ utcnow = 0
    /\ users = <<>>
    /\ particles = <<>>
    /\ seq = 0
    /\ scan = None
    /\ deleted = {}
    /\ particles_fts = EmptyBag
    /\ ret = Ret("init", 0, None, NoBody, NoPage, Ok(<<>>),
                 [status |-> 0, detail |-> ""])

Init == AuthInit /\ RepoInit /\ ModelsIdle

min_password_length == 6
max_password_length == 100

\* passwords that UserCreate accepts
Passwords == {Repeat("p", min_password_length), Repeat("q", min_password_length)}

\* the registration a user sends: UserCreate(username, password)
UserCreate(username) ==
    [username |-> username, password |-> Repeat("p", min_password_length)]

\* bcrypt, the only scheme of pwd_context, digests the first 72 bytes of the
\* secret
bcrypt_max_bytes == 72

\* the salts os.urandom can hand to bcrypt
MaxSalts == 2
Salts == 1..MaxSalts

\* what the installed bcrypt backend does with a secret of more than 72
\* bytes: it drops the rest, or it raises ValueError
Backends == {"truncate", "raise"}

\* the part of the secret that bcrypt digests (one byte per character)
bcrypt_secret(password) ==
    IF Len(password) > bcrypt_max_bytes
    THEN SubSeq(password, 1, bcrypt_max_bytes)
    ELSE password

\* the bcrypt hash string: scheme, salt, and a digest that stands for
\* exactly the salt and the bytes digested
bcrypt(password, salt) ==
    [scheme |-> "2b", salt |-> salt, digest |-> <<"#">> \o bcrypt_secret(password)]

\* whether the backend refuses the secret
too_long(password, backend) ==
    Len(password) > bcrypt_max_bytes /\ backend = "raise"

\* PasswordManager.hash_password: pwd_context.hash(password) with the salt
\* drawn for this call; any exception becomes AuthenticationError
hash_password(password, salt, backend) ==
    IF too_long(password, backend)
    THEN Raise("AuthenticationError", "Failed to hash password")
    ELSE Ok(<<bcrypt(password, salt)>>)

\* PasswordManager.verify_password: pwd_context.verify digests the plain
\* password with the salt of the stored hash and compares; any exception
\* gives False
verify_password(plain_password, hashed_password, backend) ==
    IF too_long(plain_password, backend) THEN FALSE
    ELSE bcrypt(plain_password, hashed_password.salt) = hashed_password

\* passwords UserCreate accepts, up to and beyond what bcrypt digests
LongPassword(c) == Repeat("a", bcrypt_max_bytes) \o <<c>>
PasswordInputs ==
    Passwords \cup {Repeat("a", bcrypt_max_bytes), LongPassword("b"), LongPassword("c")}

\* the salts of the hashes made so far
used_salts(hashes) ==
    {hashes[k].value[1].salt : k \in {j \in DOMAIN hashes : hashes[j].kind = "ok"}}

\* two passwords are at hand on some installation
PasswordInit ==
    \E backend \in Backends, P \in PasswordInputs :
      \E Q \in PasswordInputs \ {P} :
        password_manager = [backend |-> backend, P |-> P, Q |-> Q,
                            hashes |-> <<>>, verified |-> <<>>]

\* password_manager.hash_password(P), called twice; the salt of a call is
\* a value os.urandom has not returned before
hash_password_call ==
    /\ Len(password_manager.hashes) < 2
    /\ \E salt \in Salts \ used_salts(password_manager.hashes) :
          password_manager' = [password_manager EXCEPT !.hashes =
              Append(@, hash_password(password_manager.P, salt,
                                      password_manager.backend))]
    /\ UNCHANGED <<validated, inflight, writer, db_manager>>
    /\ UNCHANGED <<avars, rvars>>

\* password_manager.verify_password(P, hashed) and verify_password(Q, hashed)
\* for the first hash of P
verify_password_call ==
    /\ Len(password_manager.hashes) = 2
    /\ password_manager.hashes[1].kind = "ok"
    /\ password_manager.verified = <<>>
    /\ password_manager' = [password_manager EXCEPT !.verified =
          <<verify_password(password_manager.P,
                            password_manager.hashes[1].value[1],
                            password_manager.backend),
            verify_password(password_manager.Q,
                            password_manager.hashes[1].value[1],
                            password_manager.backend)>>]
    /\ UNCHANGED <<validated, inflight, writer, db_manager>>
    /\ UNCHANGED <<avars, rvars>>

PasswordNext ==
    \/ hash_password_call
    \/ verify_password_call

\* PasswordManager.validate_password_strength
validate_password_strength(password) ==
    IF Len(password) < min_password_length
    THEN Raise("ServiceError", "Password must be at least 6 characters")
    ELSE IF Len(password) > max_password_length
    THEN Raise("ServiceError", "Password must not exceed 100 characters")
    ELSE Ok(<<>>)

\* INSERT INTO users (username, password_hash, created): username is the
\* PRIMARY KEY, a second row for it violates the constraint and nothing is
\* written
insert_user(tbl, username, password_hash, created) ==
    IF username \in DOMAIN tbl THEN tbl
    ELSE [u \in DOMAIN tbl \cup {username} |->
             IF u = username
             THEN [password_hash |-> password_hash, created |-> created]
             ELSE tbl[u]]

\* a users table without the PRIMARY KEY: the INSERT never fails
insert_user_outcome_no_key(tbl, username, clock) ==
    Ok(<<[username |-> username, created |-> isoformat(clock)]>>)

\* what the INSERT of create_user ends in: sqlite3.IntegrityError becomes
\* ServiceError("Username already exists")
insert_user_outcome(tbl, username, clock) ==
    IF username \in DOMAIN tbl
    THEN Raise("ServiceError", "Username already exists")
    ELSE Ok(<<[username |-> username, created |-> isoformat(clock)]>>)

\* routes.register_user: 201, or 400 with the message of the ServiceError
register_user_route(out) ==
    IF out.kind = "ok" THEN [status |-> 201, detail |-> ""]
    ELSE [status |-> 400, detail |-> out.msg]

\* UserService.create_user run without interruption: strength check, hash,
\* INSERT
create_user_call(user_data) ==
    \E salt \in Salts, backend \in Backends :
        LET strength == validate_password_strength(user_data.password)
            hashed == hash_password(user_data.password, salt, backend)
            out == IF strength.kind # "ok" THEN strength
                   ELSE IF hashed.kind # "ok"
                   THEN Raise("ServiceError", hashed.msg)
                   ELSE insert_user_outcome(users, user_data.username, utcnow)
        IN /\ users' = IF strength.kind = "ok" /\ hashed.kind = "ok"
                       THEN insert_user(users, user_data.username,
                                        hashed.value[1], isoformat(utcnow))
                       ELSE users
           /\ ret' = Ret("create_user", 0, user_data.username, user_data,
                         NoPage, out, register_user_route(out))
           /\ UNCHANGED <<utcnow, particles, seq, scan, deleted, particles_fts>>

create_user(user_data) ==
    create_user_call(user_data) /\ UNCHANGED <<avars, mvars>>

\* UserService.create_user as a request worker runs it, up to the INSERT:
\* the strength check and the hash touch no shared state
create_user_begin(w, user_data) ==
    \E salt \in Salts, backend \in Backends :
        LET strength == validate_password_strength(user_data.password)
            hashed == hash_password(user_data.password, salt, backend)
            passed == strength.kind = "ok" /\ hashed.kind = "ok"
        IN /\ inflight[w].phase = "idle"
           /\ inflight' = [inflight EXCEPT ![w] =
                 [phase |-> IF passed THEN "hashed" ELSE "done",
                  username |-> user_data.username,
                  password |-> user_data.password,
                  password_hash |-> IF passed THEN hashed.value[1] ELSE NoHash,
                  created |-> <<>>,
                  free |-> user_data.username \notin DOMAIN users,
                  out |-> IF strength.kind = "ok" /\ hashed.kind # "ok"
                          THEN Raise("ServiceError", hashed.msg)
                          ELSE strength]]
           /\ UNCHANGED <<validated, writer, password_manager, db_manager>>
           /\ UNCHANGED <<avars, rvars>>

\* db.execute(INSERT ...) on the worker's own connection: with the write
\* lock free the statement runs, and either the PRIMARY KEY rejects it
\* (IntegrityError, reported as ServiceError) or the row is written under
\* the lock; with the lock held by another connection the statement waits,
\* and sqlite3.OperationalError leaves create_user when busy_timeout runs out
create_user_execute(w) ==
    LET call == inflight[w]
        out == insert_user_outcome(users, call.username, utcnow)
    IN /\ call.phase = "hashed"
       /\ IF writer = 0
          THEN IF out.kind = "ok"
               THEN /\ inflight' = [inflight EXCEPT ![w].phase = "inserted",
                                                    ![w].created = isoformat(utcnow)]
                    /\ writer' = w
               ELSE /\ inflight' = [inflight EXCEPT ![w].phase = "done",
                                                    ![w].out = out]
                    /\ UNCHANGED writer
          ELSE /\ inflight' = [inflight EXCEPT ![w].phase = "done",
                       ![w].out = Raise("OperationalError", "database is locked")]
               /\ UNCHANGED writer
       /\ UNCHANGED <<validated, password_manager, db_manager>>
       /\ UNCHANGED <<avars, rvars>>

\* db.commit() and the return of create_user: the row becomes visible to the
\* other connections, the lock is released, and the dict returned carries a
\* second utcnow()
create_user_commit(w) ==
    LET call == inflight[w]
    IN /\ call.phase = "inserted"
       /\ users' = insert_user(users, call.username, call.password_hash,
                               call.created)
       /\ writer' = 0
       /\ inflight' = [inflight EXCEPT ![w].phase = "done",
             ![w].out = Ok(<<[username |-> call.username,
                              created |-> isoformat(utcnow)]>>)]
       /\ UNCHANGED <<utcnow, particles, seq, scan, deleted, particles_fts, ret, validated,
                      password_manager, db_manager>>
       /\ UNCHANGED avars

\* the stored hash is not looked at
authenticate_user_result_any_password(tbl, username, password, backend) ==
    IF username \notin DOMAIN tbl THEN <<>>
    ELSE <<[username |-> username, created |-> tbl[username].created]>>

\* UserService.authenticate_user: the user's row, or None when there is no
\* row for the username or the password does not verify against its hash.
\* The optional result is a sequence: <<>> is None, <<row>> is the dict.
authenticate_user_result(tbl, username, password, backend) ==
    IF username \notin DOMAIN tbl THEN <<>>
    ELSE IF ~verify_password(password, tbl[username].password_hash, backend)
    THEN <<>>
    ELSE <<[username |-> username, created |-> tbl[username].created]>>

IncorrectLogin == "Incorrect username or password"

\* routes.login: authenticate_user, then create_token for the user found;
\* 401 when authenticate_user returns None
login(username, password) ==
    \E backend \in Backends :
        LET form_data == [username |-> username, password |-> password]
            user == authenticate_user_result(users, username, password, backend)
        IN IF user = <<>>
           THEN /\ ret' = Ret("login", 0, username, form_data, NoPage,
                              Raise("HTTPException", IncorrectLogin),
                              [status |-> 401, detail |-> IncorrectLogin])
                /\ UNCHANGED <<utcnow, users, particles, seq, scan, deleted, particles_fts>>
                /\ UNCHANGED <<avars, mvars>>
           ELSE /\ create_token_call(user[1].username)
                /\ ret' = Ret("login", 0, username, form_data, NoPage,
                              Ok(<<[access_token |-> aret'.token,
                                    token_type |-> "bearer",
                                    expires_in |-> expire_seconds]>>),
                              [status |-> 200, detail |-> ""])
                /\ UNCHANGED <<utcnow, users, particles, seq, scan, deleted, particles_fts>>
                /\ UNCHANGED mvars

\* rowid allocation without AUTOINCREMENT: one more than the largest rowid
\* currently in the table
next_rowid_max(tbl, sequence) ==
    IF DOMAIN tbl = {} THEN 1
    ELSE (CHOOSE i \in DOMAIN tbl : \A j \in DOMAIN tbl : j <= i) + 1

\* one document of the full-text index
fts_entry(rowid, title, content) ==
    [rowid |-> rowid, title |-> title, content |-> content]

\* INSERT INTO particles_fts(rowid, title, content) VALUES (...)
fts_insert(idx, rowid, title, content) ==
    idx (+) SetToBag({fts_entry(rowid, title, content)})

\* INSERT INTO particles_fts(particles_fts, rowid, title, content)
\* VALUES('delete', ...): takes the document with these values out
fts_delete(idx, rowid, title, content) ==
    idx (-) SetToBag({fts_entry(rowid, title, content)})

\* trigger particles_fts_insert AFTER INSERT ON particles
particles_fts_insert(idx, id, new) ==
    fts_insert(idx, id, new.title, new.content)

\* trigger particles_fts_delete AFTER DELETE ON particles
particles_fts_delete(idx, id, old) ==
    fts_delete(idx, id, old.title, old.content)

\* the new values are indexed beside the old ones
particles_fts_update_stale(idx, id, old, new) ==
    fts_insert(idx, id, new.title, new.content)

\* trigger particles_fts_update AFTER UPDATE ON particles
particles_fts_update(idx, id, old, new) ==
    fts_insert(fts_delete(idx, id, old.title, old.content),
               id, new.title, new.content)

\* the triggers run once for each row of the statement; the statements of
\* the services select by the primary key, so at most one row is affected
after_update(idx, old_tbl, new_tbl, rows) ==
    IF rows = {} THEN idx
    ELSE LET i == CHOOSE i \in rows : TRUE
         IN particles_fts_update(idx, i, old_tbl[i], new_tbl[i])

after_delete(idx, old_tbl, rows) ==
    IF rows = {} THEN idx
    ELSE LET i == CHOOSE i \in rows : TRUE
         IN particles_fts_delete(idx, i, old_tbl[i])

\* AUTOINCREMENT: one more than the largest rowid ever used
next_rowid(tbl, sequence) == sequence + 1

create_particle_call(particle_data, username) ==
    IF username \notin DOMAIN users
    THEN \* FOREIGN KEY(user) REFERENCES users(username): the INSERT fails
         LET out == Raise("IntegrityError", "FOREIGN KEY constraint failed")
         IN /\ ret' = Ret("create", 0, username, particle_data, NoPage, out,
                          create_particle_route(out))
            /\ UNCHANGED <<utcnow, users, particles, seq, scan, deleted, particles_fts>>
    ELSE LET particle_id == next_rowid(particles, seq)
             created_time == isoformat(utcnow)
             row == [title |-> particle_data.title,
                     content |-> particle_data.content,
                     tags |-> join(particle_data.tags),
                     section |-> particle_data.section,
                     user |-> username,
                     created |-> created_time,
                     updated |-> created_time]
             tbl == [i \in DOMAIN particles \cup {particle_id} |->
                        IF i = particle_id THEN row ELSE particles[i]]
             out == get_particle_by_id_outcome(tbl, particle_id, username)
         IN /\ particles' = tbl
            /\ particles_fts' = particles_fts_insert(particles_fts, particle_id, row)
            /\ seq' = particle_id
            /\ ret' = Ret("create", particle_id, username, particle_data,
                          NoPage, out, create_particle_route(out))
            /\ UNCHANGED <<utcnow, users, scan, deleted>>

create_particle(particle_data, username) ==
    create_particle_call(particle_data, username) /\ UNCHANGED <<avars, mvars>>

get_particle_by_id_call(particle_id, username) ==
    LET out == get_particle_by_id_outcome(particles, particle_id, username)
    IN /\ ret' = Ret("get", particle_id, username, NoBody, NoPage, out,
                     get_particle_route(out))
       /\ UNCHANGED <<utcnow, users, particles, seq, scan, deleted, particles_fts>>

get_particle_by_id(particle_id, username) ==
    get_particle_by_id_call(particle_id, username) /\ UNCHANGED <<avars, mvars>>

\* SET clause built from the fields of the body that are not None
has_update_fields(d) ==
    d.title # None \/ d.content # None \/ d.tags # NoTags \/ d.section # None

\* an empty tags list is taken for an absent field
update_row_truthy(row, d, updated_time) ==
    [title |-> IF d.title # None THEN d.title ELSE row.title,
     content |-> IF d.content # None THEN d.content ELSE row.content,
     tags |-> IF d.tags # NoTags /\ d.tags # <<>> THEN join(d.tags) ELSE row.tags,
     section |-> IF d.section # None THEN d.section ELSE row.section,
     user |-> row.user,
     created |-> row.created,
     updated |-> updated_time]

\* the updated column is written only when a value changes
update_row_lazy(row, d, updated_time) ==
    LET new == [title |-> IF d.title # None THEN d.title ELSE row.title,
                content |-> IF d.content # None THEN d.content ELSE row.content,
                tags |-> IF d.tags # NoTags THEN join(d.tags) ELSE row.tags,
                section |-> IF d.section # None THEN d.section ELSE row.section,
                user |-> row.user,
                created |-> row.created,
                updated |-> row.updated]
    IN IF new = row THEN row ELSE [new EXCEPT !.updated = updated_time]

\* created is written together with updated
update_row_created(row, d, updated_time) ==
    [title |-> IF d.title # None THEN d.title ELSE row.title,
     content |-> IF d.content # None THEN d.content ELSE row.content,
     tags |-> IF d.tags # NoTags THEN join(d.tags) ELSE row.tags,
     section |-> IF d.section # None THEN d.section ELSE row.section,
     user |-> row.user,
     created |-> updated_time,
     updated |-> updated_time]

\* SET <fields present>, updated = ?
update_row(row, d, updated_time) ==
    [title |-> IF d.title # None THEN d.title ELSE row.title,
     content |-> IF d.content # None THEN d.content ELSE row.content,
     tags |-> IF d.tags # NoTags THEN join(d.tags) ELSE row.tags,
     section |-> IF d.section # None THEN d.section ELSE row.section,
     user |-> row.user,
     created |-> row.created,
     updated |-> updated_time]

\* UPDATE particles SET ... WHERE id = ? AND user = ?
update_table(tbl, particle_id, username, d, updated_time) ==
    [i \in DOMAIN tbl |->
        IF i \in where_id_user(tbl, particle_id, username)
        THEN update_row(tbl[i], d, updated_time)
        ELSE tbl[i]]

\* the UPDATE statement is executed: the existence check passed and the
\* body has a field
update_particle_writes(tbl, particle_id, d, username) ==
    /\ get_particle_by_id_outcome(tbl, particle_id, username).kind = "ok"
    /\ has_update_fields(d)

\* the table update_particle leaves behind: nothing is written when the
\* existence check raises or when the body has no field
update_particle_table(tbl, particle_id, d, username, clock) ==
    IF get_particle_by_id_outcome(tbl, particle_id, username).kind # "ok"
    THEN tbl
    ELSE IF ~has_update_fields(d) THEN tbl
    ELSE update_table(tbl, particle_id, username, d, isoformat(clock))

\* what update_particle returns or raises
update_particle_outcome(tbl, particle_id, d, username, clock) ==
    LET existing == get_particle_by_id_outcome(tbl, particle_id, username)
    IN IF existing.kind # "ok" THEN existing
       ELSE IF ~has_update_fields(d) THEN existing
       ELSE get_particle_by_id_outcome(
                update_particle_table(tbl, particle_id, d, username, clock),
                particle_id, username)

update_particle_call(particle_id, particle_data, username) ==
    LET out == update_particle_outcome(particles, particle_id, particle_data,
                                       username, utcnow)
        tbl == update_particle_table(particles, particle_id, particle_data,
                                     username, utcnow)
        rows == IF update_particle_writes(particles, particle_id, particle_data, username)
                THEN where_id_user(particles, particle_id, username) ELSE {}
    IN /\ particles' = tbl
       /\ particles_fts' = after_update(particles_fts, particles, tbl, rows)
       /\ ret' = Ret("update", particle_id, username, particle_data, NoPage,
                     out, update_particle_route(out))
       /\ UNCHANGED <<utcnow, users, seq, scan, deleted>>

update_particle(particle_id, particle_data, username) ==
    update_particle_call(particle_id, particle_data, username) /\ UNCHANGED <<avars, mvars>>

\* DELETE FROM particles WHERE id = ? AND user = ?
delete_particle_table(tbl, particle_id, username) ==
    [i \in DOMAIN tbl \ where_id_user(tbl, particle_id, username) |-> tbl[i]]

\* a DELETE that affects no row is reported as a success
delete_particle_outcome_idempotent(tbl, particle_id, username) == Ok(<<>>)

\* rowcount = 0 raises ServiceError inside the session block; get_db_session
\* turns it into a DatabaseError, which delete_particle reports as
\* "Failed to delete particle"
delete_particle_outcome(tbl, particle_id, username) ==
    IF where_id_user(tbl, particle_id, username) = {}
    THEN Raise("ServiceError", "Failed to delete particle")
    ELSE Ok(<<>>)

delete_particle_call(particle_id, username) ==
    LET out == delete_particle_outcome(particles, particle_id, username)
    IN /\ particles' = delete_particle_table(particles, particle_id, username)
       /\ particles_fts' = after_delete(particles_fts, particles,
                                        where_id_user(particles, particle_id, username))
       /\ deleted' = deleted \cup where_id_user(particles, particle_id, username)
       /\ ret' = Ret("delete", particle_id, username, NoBody, NoPage, out,
                     delete_particle_route(out))
       /\ UNCHANGED <<utcnow, users, seq, scan>>

delete_particle(particle_id, username) ==
    delete_particle_call(particle_id, username) /\ UNCHANGED <<avars, mvars>>

\* ORDER BY created ASC
order_before_asc(tbl, i, j, plan) ==
    \/ TextLess(tbl[i].created, tbl[j].created)
    \/ /\ tbl[i].created = tbl[j].created
       /\ IF plan = "rowid_asc" THEN i < j ELSE i > j

\* row i comes before row j under  ORDER BY created DESC ; rows of equal
\* created come in the order the plan visits them
order_before(tbl, i, j, plan) ==
    \/ TextLess(tbl[j].created, tbl[i].created)
    \/ /\ tbl[i].created = tbl[j].created
       /\ IF plan = "rowid_asc" THEN i < j ELSE i > j

\* the plans the engine may still use: either visiting order of rows of equal
\* sort key until the statement has been prepared, the prepared one afterwards
Plans(prepared) ==
    IF prepared = None THEN {"rowid_asc", "rowid_desc"} ELSE {prepared}

RECURSIVE order_by_created_desc(_, _, _)
order_by_created_desc(tbl, ids, plan) ==
    IF ids = {} THEN <<>>
    ELSE LET first == CHOOSE i \in ids :
                         \A j \in ids \ {i} : order_before(tbl, i, j, plan)
         IN <<first>> \o order_by_created_desc(tbl, ids \ {first}, plan)

Min(a, b) == IF a < b THEN a ELSE b

\* the page starts one row early
limit_offset_early(rows, limit, offset) ==
    SubSeq(rows, IF offset = 0 THEN 1 ELSE offset, Min(Len(rows), offset + limit))

\* LIMIT ? OFFSET ?
limit_offset(rows, limit, offset) ==
    SubSeq(rows, offset + 1, Min(Len(rows), offset + limit))

\* rows selected by  WHERE user = ? [AND section = ?]
where_user_section(tbl, username, section) ==
    {i \in DOMAIN tbl : /\ tbl[i].user = username
                        /\ (section # None => tbl[i].section = section)}

\* the ids list_particles returns, in order (no search query)
list_particle_ids(tbl, username, section, limit, offset, plan) ==
    limit_offset(
        order_by_created_desc(tbl, where_user_section(tbl, username, section), plan),
        limit, offset)

list_particles_outcome(tbl, username, section, limit, offset, plan) ==
    LET ids == list_particle_ids(tbl, username, section, limit, offset, plan)
    IN Ok([k \in 1..Len(ids) |-> ParticleResponse(tbl, ids[k])])

\* the engine settles on a plan for the statement when it first prepares it
\* and keeps it afterwards
list_particles_call(username, section, limit, offset) ==
    \E plan \in Plans(scan) :
        LET out == list_particles_outcome(particles, username, section, limit, offset, plan)
        IN /\ scan' = plan
           /\ ret' = Ret("list", 0, username, NoBody,
                         [section |-> section, limit |-> limit, offset |-> offset],
                         out, [status |-> 200, detail |-> ""])
           /\ UNCHANGED <<utcnow, users, particles, seq, deleted, particles_fts>>

list_particles(username, section, limit, offset) ==
    list_particles_call(username, section, limit, offset) /\ UNCHANGED <<avars, mvars>>

\* X LIKE pattern  without ESCAPE: % stands for any run of characters, _ for
\* any one character, letters of ASCII match in either case
RECURSIVE like(_, _)
like(pattern, str) ==
    IF pattern = <<>> THEN str = <<>>
    ELSE IF pattern[1] = "%"
    THEN \/ like(Tail(pattern), str)
         \/ str # <<>> /\ like(pattern, Tail(str))
    ELSE IF str = <<>> THEN FALSE
    ELSE IF pattern[1] = "_" THEN like(Tail(pattern), Tail(str))
    ELSE /\ lower(<<pattern[1]>>) = lower(<<str[1]>>)
         /\ like(Tail(pattern), Tail(str))

\* f"%{search_query}%"
search_pattern(search_query) == <<"%">> \o search_query \o <<"%">>

\* if section:  (None and the empty string add no filter)
section_given(section) == section # None /\ section # ""

\* if search_query:  (an optional string is <<>> for None, <<str>> otherwise)
search_given(search_query) == search_query # <<>> /\ search_query[1] # <<>>

\* WHERE user = ? [AND section = ?] [AND (title LIKE ? OR content LIKE ?)]
where_user_section_search(tbl, username, section, search_query) ==
    {i \in DOMAIN tbl :
        /\ tbl[i].user = username
        /\ (section_given(section) => tbl[i].section = section)
        /\ (search_given(search_query) =>
               \/ like(search_pattern(search_query[1]), tbl[i].title)
               \/ like(search_pattern(search_query[1]), tbl[i].content))}

list_particles_search_outcome(tbl, username, section, search_query, limit, offset, plan) ==
    LET ids == limit_offset(
                   order_by_created_desc(tbl,
                       where_user_section_search(tbl, username, section, search_query),
                       plan),
                   limit, offset)
    IN Ok([k \in 1..Len(ids) |-> ParticleResponse(tbl, ids[k])])

\* list_particles(username, section=..., search_query=...) with the default
\* limit and offset
default_limit == 100
list_particles_search_call(username, section, search_query) ==
    \E plan \in Plans(scan) :
        LET out == list_particles_search_outcome(particles, username, section,
                                                 search_query, default_limit, 0, plan)
        IN /\ scan' = plan
           /\ ret' = Ret("list", 0, username, NoBody,
                         [section |-> section, limit |-> default_limit, offset |-> 0,
                          search_query |-> search_query],
                         out, [status |-> 200, detail |-> ""])
           /\ UNCHANGED <<utcnow, users, particles, seq, deleted, particles_fts>>

list_particles_search(username, section, search_query) ==
    list_particles_search_call(username, section, search_query)
        /\ UNCHANGED <<avars, mvars>>

\* the rows of every owner are counted
group_by_section_all_users(tbl, username) ==
    [s \in {tbl[i].section : i \in DOMAIN tbl} |->
        Cardinality({i \in DOMAIN tbl : tbl[i].section = s})]

\* SELECT section, COUNT(*) FROM particles WHERE user = ? GROUP BY section:
\* one result row per section the user has particles in
group_by_section(tbl, username) ==
    LET mine == {i \in DOMAIN tbl : tbl[i].user = username}
    IN [s \in {tbl[i].section : i \in mine} |->
           Cardinality({i \in mine : tbl[i].section = s})]

\* stats['total'] += row['count'] over the result rows
RECURSIVE total_count(_, _)
total_count(results, sections) ==
    IF sections = {} THEN 0
    ELSE LET s == CHOOSE x \in sections : TRUE
         IN results[s] + total_count(results, sections \ {s})

\* the dict starts with the four sections and total at 0; every result row
\* sets its section's entry and adds to total
get_particle_stats_outcome(tbl, username) ==
    LET results == group_by_section(tbl, username)
    IN Ok([k \in Sections \cup {"total"} \cup DOMAIN results |->
              IF k \in DOMAIN results THEN results[k]
              ELSE IF k = "total" THEN total_count(results, DOMAIN results)
              ELSE 0])

get_particle_stats_call(username) ==
    LET out == get_particle_stats_outcome(particles, username)
    IN /\ ret' = Ret("stats", 0, username, NoBody, NoPage, out,
                     [status |-> 200, detail |-> ""])
       /\ UNCHANGED <<utcnow, users, particles, seq, scan, deleted, particles_fts>>

get_particle_stats(username) ==
    get_particle_stats_call(username) /\ UNCHANGED <<avars, mvars>>

\* the wall clock advances between calls
RepoTick(t) ==
    /\ t > utcnow
    /\ utcnow' = t
    /\ UNCHANGED <<users, particles, seq, scan, deleted, particles_fts, ret>>
    /\ UNCHANGED <<avars, mvars>>

\* an account is registered once, before the clock is seen to advance
Register(username) ==
    /\ utcnow = 0
    /\ username \notin DOMAIN users
    /\ create_user(UserCreate(username))
    \* salts are opaque: the one drawn here is given the first name
    /\ users'[username].password_hash.salt = 1

\* create, read, update and delete by every user
RepoNext ==
    \/ \E u \in Usernames : Register(u)
    \/ \E d \in CreateInputs, u \in Usernames :
          seq < MaxParticles /\ create_particle(d, u)
    \/ \E i \in ParticleIds, u \in Usernames : get_particle_by_id(i, u)
    \/ \E i \in ParticleIds, u \in Usernames : update_particle(i, TitleOnly, u)
    \/ \E i \in ParticleIds, u \in Usernames : delete_particle(i, u)
    \/ \E t \in 0..MaxMicros : RepoTick(t)

\* every kind of update body applied to the particles of one owner
UpdateNext ==
    \/ Register("alice")
    \/ \E d \in CreateInputs : seq < MaxUpdated /\ create_particle(d, "alice")
    \/ \E i \in 1..MaxUpdated, d \in UpdateInputs, u \in Usernames :
          update_particle(i, d, u)
    \/ \E t \in 0..MaxMicros : RepoTick(t)

\* the first two pages of every size over datasets built by creates and by
\* deletes of the owners
ListNext ==
    \/ \E u \in Usernames : Register(u)
    \/ \E u \in Usernames : seq < MaxListed /\ create_particle(Untagged, u)
    \/ \E i \in DOMAIN particles : delete_particle(i, particles[i].user)
    \/ \E u \in Usernames, l \in 1..MaxLimit, k \in 0..1 :
          list_particles(u, None, l, k * l)
    \/ \E t \in RepoInstants : RepoTick(t)

\* a body that does not validate is answered by the framework; the route
\* and the service do not run
unprocessable(op, particle_id, username, model) ==
    Ret(op, particle_id, username, NoBody, NoPage, model,
        [status |-> 422, detail |-> model.msg])

\* POST /particles/ with a JSON body: ParticleCreate is built from the body,
\* then create_particle runs (title and content are valid ones)
request_create_particle(body, username) ==
    LET model == ParticleCreate_outcome(body)
    IN /\ validated' = [model |-> "ParticleCreate", body |-> body, out |-> model]
       /\ IF model.kind = "ok"
          THEN create_particle_call(
                   [title |-> "T", content |-> "C", tags |-> model.value.tags,
                    section |-> model.value.section], username)
          ELSE /\ ret' = unprocessable("create", 0, username, model)
               /\ UNCHANGED <<utcnow, users, particles, seq, scan, deleted, particles_fts>>
       /\ UNCHANGED <<inflight, writer, password_manager, db_manager>>
       /\ UNCHANGED avars

\* PUT /particles/{particle_id} with a JSON body: ParticleUpdate is built
\* from the body, then update_particle runs
request_update_particle(particle_id, body, username) ==
    LET model == ParticleUpdate_outcome(body)
    IN /\ validated' = [model |-> "ParticleUpdate", body |-> body, out |-> model]
       /\ IF model.kind = "ok"
          THEN update_particle_call(particle_id,
                   [title |-> None, content |-> None, tags |-> model.value.tags,
                    section |-> model.value.section], username)
          ELSE /\ ret' = unprocessable("update", particle_id, username, model)
               /\ UNCHANGED <<utcnow, users, particles, seq, scan, deleted, particles_fts>>
       /\ UNCHANGED <<inflight, writer, password_manager, db_manager>>
       /\ UNCHANGED avars

\* bodies that name a section, a known one or not, and one that names none
SectionBodies == {[section |-> x] : x \in RawSections} \cup {[tags |-> <<<<"a">>>>]}

\* creates and updates with every section a client may send
SectionsNext ==
    \/ \E u \in Usernames : Register(u)
    \/ \E body \in SectionBodies, u \in Usernames :
          seq < MaxUpdated /\ request_create_particle(body, u)
    \/ \E i \in 1..MaxUpdated, body \in SectionBodies, u \in Usernames :
          request_update_particle(i, body, u)

(***************************************************************************)
(* Transactions (database.py)                                              *)
(***************************************************************************)
MaxStatements == 2

\* with db_manager as conn / with db_manager.get_db_session() as db /
\* db_manager.execute_query(query, params)
Forms == {"__enter__", "get_db_session", "execute_query"}

\* INSERT INTO users ... VALUES (username, 'hash', ...) and
\* DELETE FROM users WHERE username = ?
Statements == [op : {"INSERT", "DELETE"}, username : Usernames]

\* the statement on the connection's view of the table: the new view, or the
\* error of the engine (username is the primary key)
sql_execute(tbl, stmt, created) ==
    IF stmt.op = "INSERT"
    THEN IF stmt.username \in DOMAIN tbl
         THEN Raise("IntegrityError", "UNIQUE constraint failed: users.username")
         ELSE Ok(<<insert_user(tbl, stmt.username, NoHash, created)>>)
    ELSE Ok(<<Restrict(tbl, DOMAIN tbl \ {stmt.username})>>)

\* the exception that leaves the block: __exit__ returns False, get_db_session
\* and execute_query re-raise the two engine errors and wrap every other one
reraised(form, exc) ==
    IF form = "__enter__" \/ exc \in {"OperationalError", "IntegrityError"}
    THEN exc
    ELSE "DatabaseError"

\* the transaction is committed whatever happened in the block
connection_exit_commit(committed, view, exc) == view

\* connection.commit() when the block ended without exception,
\* connection.rollback() otherwise: the table that is visible afterwards
connection_exit(committed, view, exc) ==
    IF exc = "" THEN view ELSE committed

\* __enter__ / get_connection(): a connection is opened; it sees the
\* committed table
session_enter(form) ==
    /\ db_manager.phase # "open"
    /\ db_manager' = [phase |-> "open", form |-> form, connection |-> <<users>>,
                      before |-> users, statements |-> <<>>, exc |-> ""]
    /\ UNCHANGED <<validated, inflight, writer, password_manager>>
    /\ UNCHANGED <<avars, rvars>>

\* the block executes a statement on the connection; an error of the engine
\* is raised in the block and ends it. execute_query runs one statement
\* and commits it before it returns.
session_execute(stmt) ==
    /\ db_manager.phase = "open"
    /\ Len(db_manager.statements) < MaxStatements
    /\ db_manager.form = "execute_query" => db_manager.statements = <<>>
    /\ LET view == db_manager.connection[1]
           out == sql_execute(view, stmt, isoformat(utcnow))
       IN IF out.kind = "ok"
          THEN /\ db_manager' = [db_manager EXCEPT
                                    !.connection = out.value,
                                    !.statements = Append(@, stmt)]
               /\ users' = IF db_manager.form = "execute_query"
                           THEN out.value[1] ELSE users
          ELSE /\ db_manager' = [db_manager EXCEPT
                                    !.phase = "done",
                                    !.connection = <<>>,
                                    !.exc = reraised(db_manager.form, out.kind)]
               /\ users' = connection_exit(users, view, out.kind)
    /\ UNCHANGED <<utcnow, particles, seq, scan, deleted, particles_fts, ret>>
    /\ UNCHANGED <<validated, inflight, writer, password_manager>>
    /\ UNCHANGED avars

\* the code of the block raises: a logic error of the caller, or an error
\* of the engine that is not a constraint
session_raise(exc) ==
    /\ db_manager.phase = "open"
    /\ db_manager.form = "execute_query" =>
          exc = "OperationalError" /\ db_manager.statements = <<>>
    /\ db_manager' = [db_manager EXCEPT
                         !.phase = "done",
                         !.connection = <<>>,
                         !.exc = reraised(db_manager.form, exc)]
    /\ users' = connection_exit(users, db_manager.connection[1], exc)
    /\ UNCHANGED <<utcnow, particles, seq, scan, deleted, particles_fts, ret>>
    /\ UNCHANGED <<validated, inflight, writer, password_manager>>
    /\ UNCHANGED avars

\* the block ends without exception
session_exit ==
    /\ db_manager.phase = "open"
    /\ db_manager.form = "execute_query" => db_manager.statements # <<>>
    /\ db_manager' = [db_manager EXCEPT !.phase = "done", !.connection = <<>>]
    /\ users' = connection_exit(users, db_manager.connection[1], "")
    /\ UNCHANGED <<utcnow, particles, seq, scan, deleted, particles_fts, ret>>
    /\ UNCHANGED <<validated, inflight, writer, password_manager>>
    /\ UNCHANGED avars

BlockExceptions == {"Exception", "OperationalError"}

\* where the database fails under a repository call: sqlite3.connect or a
\* PRAGMA of get_connection raises, or the statement raises
\* sqlite3.OperationalError ("database is locked", "disk I/O error") or
\* another sqlite3.DatabaseError ("database disk image is malformed")
Faults == {"connect", "OperationalError", "sqlite3.DatabaseError"}

\* get_connection turns every sqlite3.Error into DatabaseError, which no
\* except clause of get_db_session or execute_query catches by name
db_layer_raises(form, fault) ==
    IF fault = "connect" THEN reraised(form, "DatabaseError")
    ELSE reraised(form, fault)

\* the first database access of each ParticleService method
RepositoryForm ==
    [create |-> "execute_query", get |-> "execute_query",
     update |-> "execute_query", list |-> "get_db_session",
     delete |-> "get_db_session", stats |-> "get_db_session"]

\* the message of the method's  except DatabaseError  clause; update_particle
\* starts with get_particle_by_id and re-raises its ServiceError
FailedMsg ==
    [create |-> "Failed to create particle", get |-> "Failed to fetch particle",
     update |-> "Failed to fetch particle", delete |-> "Failed to delete particle"]

\* what the method returns or raises when the database layer raised exc:
\* each method catches DatabaseError only
service_except(op, exc) ==
    IF exc # "DatabaseError" THEN Raise(exc, "")
    ELSE IF op = "list" THEN Ok(<<>>)
    ELSE IF op = "stats" THEN Ok([k \in Sections \cup {"total"} |-> 0])
    ELSE Raise("ServiceError", FailedMsg[op])

\* the routes catch ServiceError; any other exception is answered by the
\* framework
fault_route(op, out) ==
    IF out.kind = "ok" THEN [status |-> 200, detail |-> ""]
    ELSE IF out.kind # "ServiceError"
    THEN [status |-> 500, detail |-> "Internal Server Error"]
    ELSE IF op = "create" THEN create_particle_route(out)
    ELSE IF op = "get" THEN get_particle_route(out)
    ELSE IF op = "update" THEN update_particle_route(out)
    ELSE delete_particle_route(out)

\* a ParticleService call during which the database fails: nothing is
\* written
repository_fault(op, fault, particle_id, username) ==
    LET out == service_except(op, db_layer_raises(RepositoryForm[op], fault))
    IN /\ ret' = Ret(op, particle_id, username, NoBody,
                     [section |-> None, limit |-> 0, offset |-> 0, fault |-> fault],
                     out, fault_route(op, out))
       /\ UNCHANGED <<utcnow, users, particles, seq, scan, deleted, particles_fts>>
       /\ UNCHANGED <<avars, mvars>>

\* repository calls on a small dataset, with and without a failing database
FaultNext ==
    \/ \E u \in Usernames : Register(u)
    \/ \E u \in Usernames : seq < MaxParticles /\ create_particle(Untagged, u)
    \/ \E i \in 1..MaxParticles, u \in Usernames : get_particle_by_id(i, u)
    \/ \E u \in Usernames : get_particle_stats(u)
    \/ \E op \in DOMAIN RepositoryForm, fault \in Faults,
          i \in 0..MaxParticles, u \in Usernames :
          /\ (i = 0) = (op \in {"create", "list", "stats"})
          /\ repository_fault(op, fault, i, u)

\* blocks of every form, one after the other, on a table of users registered
\* before the first block
SessionNext ==
    \/ \E u \in Usernames : db_manager.phase = "closed" /\ Register(u)
    \/ \E form \in Forms : session_enter(form)
    \/ \E stmt \in Statements : session_execute(stmt)
    \/ \E exc \in BlockExceptions : session_raise(exc)
    \/ session_exit

(***************************************************************************)
(* validate_token under concurrent requests (auth.py)                      *)
(***************************************************************************)
\* get_current_user is a plain function: each request runs it, and with it
\* validate_token, on a thread of the pool; the threads share the dict
\* tokens without a lock and may be switched between any two statements

\* a thread that runs no call
Resting == [phase |-> "idle", token |-> 0, token_data |-> <<>>, t |-> 0,
            out |-> None, after_revoke |-> FALSE]

\* token_data = tokens.get(token);  if not token_data: return None
validate_token_get(w, token) ==
    /\ inflight[w].phase = "idle"
    /\ inflight' = [inflight EXCEPT ![w] =
          IF token \in DOMAIN tokens
          THEN [Resting EXCEPT !.phase = "got", !.token = token,
                               !.token_data = <<tokens[token]>>,
                               !.after_revoke = token \in revoked]
          ELSE [Resting EXCEPT !.phase = "returned", !.token = token,
                               !.after_revoke = token \in revoked]]
    /\ UNCHANGED <<validated, writer, password_manager, db_manager>>
    /\ UNCHANGED <<avars, rvars>>

\* if self.is_token_expired(token_data): self.revoke_token(token); return None
validate_token_check(w) ==
    /\ inflight[w].phase = "got"
    /\ IF is_token_expired(inflight[w].token_data[1], now)
       THEN /\ tokens' = revoke_token_table(tokens, inflight[w].token)
            /\ revoked' = revoked \cup {inflight[w].token}
            /\ inflight' = [inflight EXCEPT ![w].phase = "returned"]
       ELSE /\ inflight' = [inflight EXCEPT ![w].phase = "checked"]
            /\ UNCHANGED <<tokens, revoked>>
    /\ UNCHANGED <<now, issued, aret>>
    /\ UNCHANGED <<validated, writer, password_manager, db_manager>>
    /\ UNCHANGED rvars

\* time.time() of  token_data["last_used"] = time.time()
validate_token_time(w) ==
    /\ inflight[w].phase = "checked"
    /\ inflight' = [inflight EXCEPT ![w].phase = "timed", ![w].t = now]
    /\ UNCHANGED <<validated, writer, password_manager, db_manager>>
    /\ UNCHANGED <<avars, rvars>>

\* the store into the entry, and  return token_data["username"] ; the entry
\* is the object read by tokens.get, whether or not it is still in the dict
validate_token_store(w) ==
    /\ inflight[w].phase = "timed"
    /\ tokens' = IF inflight[w].token \in DOMAIN tokens
                 THEN [tokens EXCEPT ![inflight[w].token].last_used = inflight[w].t]
                 ELSE tokens
    /\ inflight' = [inflight EXCEPT
                       ![w].phase = "returned",
                       ![w].out = inflight[w].token_data[1].username]
    /\ UNCHANGED <<now, issued, revoked, aret>>
    /\ UNCHANGED <<validated, writer, password_manager, db_manager>>
    /\ UNCHANGED rvars

\* the thread takes the next request
validate_token_done(w) ==
    /\ inflight[w].phase = "returned"
    /\ inflight' = [inflight EXCEPT ![w] = Resting]
    /\ UNCHANGED <<validated, writer, password_manager, db_manager>>
    /\ UNCHANGED <<avars, rvars>>

\* no thread runs a call
RaceStart ==
    /\ AuthInit
    /\ RepoInit
    /\ validated = Request([section |-> ""])
    /\ inflight = [w \in Workers |-> Resting]
    /\ writer = 0
    /\ password_manager = Unused
    /\ db_manager = Closed

\* one token, validated by two threads at a time and revoked by a third
RaceNext ==
    \/ \E u \in Usernames : issued = <<>> /\ create_token(u)
    \/ \E w \in Workers, t \in TokenIds : validate_token_get(w, t)
    \/ \E w \in Workers : validate_token_check(w)
    \/ \E w \in Workers : validate_token_time(w)
    \/ \E w \in Workers : validate_token_store(w)
    \/ \E w \in Workers : validate_token_done(w)
    \/ \E t \in TokenIds : revoke_token(t)
    \/ Tick

\* validated bodies whose title and content are spelled out in characters
Searched ==
    { [title |-> <<"a", "b">>, content |-> <<"c">>, tags |-> <<>>, section |-> "Projects"],
      [title |-> <<"A">>, content |-> <<"x", "_", "y">>, tags |-> <<>>, section |-> "Areas"],
      [title |-> <<"c">>, content |-> <<"5", "0", "%">>, tags |-> <<>>, section |-> "Projects"] }

SearchSections == {None, "", "Projects", "Archives"}
SearchQueries ==
    {<<>>} \cup { <<q>> : q \in {<<>>, <<"a">>, <<"B">>, <<"a", "b">>, <<"z">>,
                                 <<"_">>, <<"%">>, <<"a", "_">>} }

\* searches over datasets built by creates of two owners
SearchNext ==
    \/ \E u \in Usernames : Register(u)
    \/ \E d \in Searched, u \in Usernames : seq < MaxParticles /\ create_particle(d, u)
    \/ \E u \in Usernames, s \in SearchSections, q \in SearchQueries :
          list_particles_search(u, s, q)

\* validated bodies that place a particle in a section or move it to one
SectionInputs ==
    { [title |-> "T", content |-> "C", tags |-> <<>>, section |-> s] :
         s \in {"Projects", "Areas"} }
ToArchives == [title |-> None, content |-> None, tags |-> NoTags, section |-> "Archives"]

\* statistics over datasets built by creates, moves between sections and
\* deletes by every user
StatsNext ==
    \/ \E u \in Usernames : Register(u)
    \/ \E d \in SectionInputs, u \in Usernames :
          seq < MaxCounted /\ create_particle(d, u)
    \/ \E i \in 1..MaxCounted, u \in Usernames : update_particle(i, ToArchives, u)
    \/ \E i \in 1..MaxCounted, u \in Usernames : delete_particle(i, u)
    \/ \E u \in Usernames : get_particle_stats(u)

(***************************************************************************)
(* The access gate (auth.get_current_user) and the routes behind it        *)
(***************************************************************************)
Unauthorized == "Invalid or expired authentication token"

\* the dependency lets a request without a user through, as
\* get_optional_user does
get_current_user_outcome_optional(username) == Ok(<<username>>)

\* get_current_user after validate_token returned username: 401 when it is
\* None, else the username handed to the route
get_current_user_outcome(username) ==
    IF username = None THEN Raise("HTTPException", Unauthorized)
    ELSE Ok(<<username>>)

\* Depends(get_current_user) for the presented token, on the table and the
\* clock of the request
current_user(token) ==
    get_current_user_outcome(validate_token_result(tokens, token, now))

\* a route declared with Depends(get_current_user): validate_token runs
\* first, and the body of the route, handler, runs only when the dependency
\* returned a user.  aret keeps the validate_token call of the gate.
Authorized(op, token, handler) ==
    /\ aret' = ARet("get_current_user", token,
                    validate_token_result(tokens, token, now), 0)
    /\ UNCHANGED <<now, issued>>
    /\ UNCHANGED mvars
    /\ IF current_user(token).kind # "ok"
       THEN /\ tokens' = validate_token_table(tokens, token, now)
            /\ ret' = Ret(op, 0, None, NoBody, NoPage, current_user(token),
                          [status |-> 401, detail |-> Unauthorized])
            /\ UNCHANGED revoked
            /\ UNCHANGED <<utcnow, users, particles, seq, scan, deleted, particles_fts>>
       ELSE handler

\* the body of a particle route or of /users/me: the token table stays as
\* validate_token left it
Serve(token, call) ==
    /\ tokens' = validate_token_table(tokens, token, now)
    /\ UNCHANGED revoked
    /\ call

route_create_particle(token, particle_data) ==
    Authorized("create", token,
        Serve(token, create_particle_call(particle_data,
                                          current_user(token).value[1])))

route_list_particles(token, section, limit, offset) ==
    Authorized("list", token,
        Serve(token, list_particles_call(current_user(token).value[1],
                                         section, limit, offset)))

route_get_particle(token, particle_id) ==
    Authorized("get", token,
        Serve(token, get_particle_by_id_call(particle_id,
                                             current_user(token).value[1])))

route_update_particle(token, particle_id, particle_data) ==
    Authorized("update", token,
        Serve(token, update_particle_call(particle_id, particle_data,
                                          current_user(token).value[1])))

route_delete_particle(token, particle_id) ==
    Authorized("delete", token,
        Serve(token, delete_particle_call(particle_id,
                                          current_user(token).value[1])))

route_get_particle_stats(token) ==
    Authorized("stats", token,
        Serve(token, get_particle_stats_call(current_user(token).value[1])))

\* UserService.get_user_info behind GET /users/me: the row's username and
\* created, 404 when there is no row
get_user_info_call(username) ==
    LET found == username \in DOMAIN users
        out == IF found
               THEN Ok(<<[username |-> username, created |-> users[username].created]>>)
               ELSE Raise("HTTPException", "User information not found")
    IN /\ ret' = Ret("me", 0, username, NoBody, NoPage, out,
                     IF found THEN [status |-> 200, detail |-> ""]
                     ELSE [status |-> 404, detail |-> out.msg])
       /\ UNCHANGED <<utcnow, users, particles, seq, scan, deleted, particles_fts>>

get_current_user_info(token) ==
    Authorized("me", token,
        Serve(token, get_user_info_call(current_user(token).value[1])))

\* the logout revokes the presented token only
logout_table_presented(token) ==
    revoke_token_table(validate_token_table(tokens, token, now), token)

\* the token table after revoke_user_tokens(current_user) of the logout
logout_table(token) ==
    revoke_user_tokens_table(validate_token_table(tokens, token, now),
                             current_user(token).value[1])

\* POST /auth/logout: revoke_user_tokens(current_user), always a success
logout(token) ==
    Authorized("logout", token,
        /\ tokens' = logout_table(token)
        /\ revoked' = revoked \cup
               {t \in DOMAIN issued : issued[t].username = current_user(token).value[1]}
        /\ ret' = Ret("logout", 0, current_user(token).value[1], NoBody, NoPage,
                      Ok(<<>>), [status |-> 200, detail |-> ""])
        /\ UNCHANGED <<utcnow, users, particles, seq, scan, deleted, particles_fts>>)

\* the bearer tokens a client presents: two that logins issue, and one
\* that never is
Presented == {0, 1, 2}

\* the particle ids a client asks for
GateIds == {1}

\* the instants at which the gate is observed: the start, the last second
\* of the first day's logins, and the second at which a token of the start
\* has expired and one of that last second has not
GateInstants == {0, MaxTicks, expire_seconds + MaxTicks}

\* accounts, logins during the first seconds, the clock, and every gated
\* route called with every token
GateNext ==
    \/ \E u \in Usernames : Register(u)
    \/ \E u \in Usernames :
          /\ now <= MaxTicks
          /\ login(u, UserCreate(u).password)
          \* token values are opaque: they are named in the order of issue
          /\ DOMAIN issued' \subseteq Presented \cap 1..(Cardinality(DOMAIN issued) + 1)
    \/ Tick /\ now' \in GateInstants
    \/ \E t \in Presented, d \in CreateInputs :
          next_rowid(particles, seq) \in GateIds /\ route_create_particle(t, d)
    \/ \E t \in Presented : route_list_particles(t, None, 1, 0)
    \/ \E t \in Presented, i \in GateIds : route_get_particle(t, i)
    \/ \E t \in Presented, i \in GateIds : route_update_particle(t, i, TitleOnly)
    \/ \E t \in Presented, i \in GateIds : route_delete_particle(t, i)
    \/ \E t \in Presented : route_get_particle_stats(t)
    \/ \E t \in Presented : get_current_user_info(t)
    \/ \E t \in Presented : logout(t)

\* names tried at the login: the users that may register and one that
\* never does
LoginNames == Usernames \cup {"carol"}

\* registrations and logins with right and wrong credentials
LoginNext ==
    \/ \E u \in Usernames, p \in Passwords :
          create_user([username |-> u, password |-> p])
    \/ \E u \in LoginNames, p \in Passwords : login(u, p)
    \/ \E t \in 0..MaxMicros : RepoTick(t)

SpecAuth == Init /\ [][AuthNext]_vars

\* the state in which a dict is at hand and nothing else happened
ExpiryStart == ExpiryInit /\ RepoInit /\ ModelsIdle

SpecExpiry == ExpiryStart /\ [][ExpiryNext]_vars

SpecLogin == Init /\ [][LoginNext]_vars

\* the state in which two passwords are at hand and nothing else happened
PasswordStart ==
    /\ AuthInit
    /\ RepoInit
    /\ validated = Request([section |-> ""])
    /\ inflight = [w \in Workers |-> Idle]
    /\ writer = 0
    /\ db_manager = Closed
    /\ PasswordInit

SpecPassword == PasswordStart /\ [][PasswordNext]_vars

\* two workers, each running one registration, step by step
RegisterNext ==
    \/ \E w \in Workers, u \in Usernames, p \in Passwords :
          create_user_begin(w, [username |-> u, password |-> p])
    \/ \E w \in Workers : create_user_execute(w)
    \/ \E w \in Workers : create_user_commit(w)
    \/ \E t \in RepoInstants : RepoTick(t)

SpecRegister == Init /\ [][RegisterNext]_vars

SpecGate == Init /\ [][GateNext]_vars

SpecStats == Init /\ [][StatsNext]_vars

\* the state in which a request body has arrived and nothing else happened
ModelsStart == AuthInit /\ RepoInit /\ ModelsInit

SpecModels == ModelsStart /\ [][ModelsNext]_vars

SpecRepo == Init /\ [][RepoNext]_vars

SpecUpdate == Init /\ [][UpdateNext]_vars

SpecList == Init /\ [][ListNext]_vars

SpecSearch == Init /\ [][SearchNext]_vars

SpecSections == Init /\ [][SectionsNext]_vars

SpecSession == Init /\ [][SessionNext]_vars

SpecFault == Init /\ [][FaultNext]_vars

SpecRace == RaceStart /\ [][RaceNext]_vars

(***************************************************************************)
(* Properties                                                              *)
(***************************************************************************)

\* C1: every issued token T validates to its user while its age since
\* creation is at most expire_seconds and neither revoke_token(T) nor
\* revoke_user_tokens(user of T) has run; as soon as it has expired or has
\* been revoked, validate_token(T) returns None, at every later moment.
C1_TokenLifetime ==
    \A t \in DOMAIN issued :
        LET alive == /\ now - issued[t].created <= expire_seconds
                     /\ t \notin revoked
        IN validate_token_result(tokens, t, now)
               = IF alive THEN issued[t].username ELSE None

\* an expired, never revoked token was validated and rejected after it had
\* been validated successfully at the last second of its life
C1_Witness ==
    /\ aret.op = "validate_token"
    /\ aret.token \in DOMAIN issued
    /\ aret.token \notin revoked
    /\ now - issued[aret.token].created > expire_seconds
    /\ aret.user = None
    /\ \E t \in DOMAIN tokens : t \notin revoked /\ tokens[t].last_used > tokens[t].created

\* C4: revoke_user_tokens(u) removes exactly the entries whose username is
\* u, leaves every other entry unchanged and returns the number removed.
C4_RevokeUserTokensFrame ==
    [][ (aret'.op = "revoke_user_tokens" /\ now' = now) =>
          LET u == aret'.user
              mine == {t \in DOMAIN tokens : tokens[t].username = u}
          IN /\ DOMAIN tokens' = DOMAIN tokens \ mine
             /\ \A t \in DOMAIN tokens' : tokens'[t] = tokens[t]
             /\ aret'.count = Cardinality(mine) ]_vars

\* two tokens of one user were revoked at once while another user's stayed
C4_Witness ==
    /\ aret.op = "revoke_user_tokens"
    /\ aret.count >= 1
    /\ \E t \in DOMAIN tokens : tokens[t].username # aret.user
    /\ \E t \in DOMAIN issued : issued[t].username = aret.user

\* a step of the particle service (the clock and the users table stand still)
ServiceStep == utcnow' = utcnow /\ users' = users

\* C2: for a particle p of owner A, get, update and delete called by any
\* other user B end in a ServiceError that the route answers with 404,
\* return no particle, and leave p's row present and unchanged.
C2_OwnerIsolation ==
    [][ \A i \in DOMAIN particles :
          ( /\ ServiceStep
            /\ ret'.op \in {"get", "update", "delete"}
            /\ ret'.id = i
            /\ ret'.user # particles[i].user )
          => /\ ret'.kind = "ServiceError"
             /\ ret'.status = 404
             /\ ret'.value = <<>>
             /\ i \in DOMAIN particles'
             /\ particles'[i] = particles[i] ]_vars

\* a registered user tried to delete the stored particle of another user
C2_Witness ==
    /\ ret.op = "delete"
    /\ ret.id \in DOMAIN particles
    /\ ret.user \in DOMAIN users
    /\ particles[ret.id].user # ret.user
    /\ ret.kind = "ServiceError"

\* the store without row i: the run in which the particle does not exist
Without(tbl, i) == [j \in DOMAIN tbl \ {i} |-> tbl[j]]

Response(out, http) ==
    [kind |-> out.kind, msg |-> out.msg, value |-> out.value,
     status |-> http.status, detail |-> http.detail]

\* C3: for a caller B and an id i owned by another user, the outcome of get,
\* update and delete (error kind, message, HTTP status and detail) is the
\* same as in the run where no particle with id i exists at all.
C3_ExistenceNonInterference ==
    \A i \in DOMAIN particles : \A b \in Usernames \ {particles[i].user} :
        LET absent == Without(particles, i)
            get1 == get_particle_by_id_outcome(particles, i, b)
            get0 == get_particle_by_id_outcome(absent, i, b)
            del1 == delete_particle_outcome(particles, i, b)
            del0 == delete_particle_outcome(absent, i, b)
        IN /\ Response(get1, get_particle_route(get1))
                = Response(get0, get_particle_route(get0))
           /\ Response(del1, delete_particle_route(del1))
                = Response(del0, delete_particle_route(del0))
           /\ \A d \in UpdateInputs :
                LET upd1 == update_particle_outcome(particles, i, d, b, utcnow)
                    upd0 == update_particle_outcome(absent, i, d, b, utcnow)
                IN Response(upd1, update_particle_route(upd1))
                     = Response(upd0, update_particle_route(upd0))

\* the same caller met a particle of another owner and, for another id, no
\* particle at all
C3_Witness ==
    /\ ret.op = "get"
    /\ ret.kind = "ServiceError"
    /\ ret.id \in DOMAIN particles
    /\ particles[ret.id].user # ret.user
    /\ deleted # {}

Range(f) == {f[k] : k \in DOMAIN f}

owned(u) == {i \in DOMAIN particles : particles[i].user = u}

\* the instant a stored timestamp was taken at
instant_of(text) == CHOOSE t \in RepoInstants : isoformat(t) = text

\* C5: list_particles(u) without section and search query and with a limit
\* of at least the number of u's particles returns exactly the particles
\* owned by u, newest created first.
C5_ListOwnedNewestFirst ==
    \A u \in Usernames : \A l \in 1..(MaxListed + 1) : \A plan \in Plans(scan) :
        l >= Cardinality(owned(u)) =>
            LET out == list_particles_outcome(particles, u, None, l, 0, plan).value
            IN /\ {out[k].id : k \in DOMAIN out} = owned(u)
               /\ Len(out) = Cardinality(owned(u))
               /\ \A k \in DOMAIN out :
                     out[k] = ParticleResponse(particles, out[k].id)
               /\ \A k, m \in DOMAIN out :
                     k < m => instant_of(out[k].created) >= instant_of(out[m].created)

\* a full listing of two particles created at different instants, one of
\* them without a fraction of a second, next to a particle of another user
C5_Witness ==
    /\ ret.op = "list"
    /\ ret.page.section = None
    /\ ret.page.offset = 0
    /\ Len(ret.value) >= 2
    /\ ret.page.limit >= Cardinality(owned(ret.user))
    /\ ret.value[1].created # ret.value[2].created
    /\ Len(ret.value[1].created) # Len(ret.value[2].created)
    /\ \E i \in DOMAIN particles : particles[i].user # ret.user

\* page k of u's particles for limit l
Page(u, l, k, plan) == list_particle_ids(particles, u, None, l, k * l, plan)

C7_PartialUpdate ==
    [][ ( /\ ServiceStep
          /\ ret'.op = "update"
          /\ ret'.kind = "ok" )
        => LET i == ret'.id
               d == ret'.req
           IN /\ i \in DOMAIN particles /\ i \in DOMAIN particles'
              /\ particles'[i].title
                   = IF d.title # None THEN d.title ELSE particles[i].title
              /\ particles'[i].content
                   = IF d.content # None THEN d.content ELSE particles[i].content
              /\ tags_of(particles'[i].tags)
                   = IF d.tags # NoTags THEN d.tags ELSE tags_of(particles[i].tags)
              /\ particles'[i].section
                   = IF d.section # None THEN d.section ELSE particles[i].section
              /\ ret'.value = <<ParticleResponse(particles', i)>> ]_vars

\* an update that carried an empty tags list and no title was applied to a
\* particle whose title an earlier update had changed
C7_Witness ==
    /\ ret.op = "update"
    /\ ret.kind = "ok"
    /\ ret.req.tags = <<>>
    /\ ret.req.title = None
    /\ particles[ret.id].tags = <<>>
    /\ particles[ret.id].title = "T2"
    /\ particles[ret.id].section = "Projects"

\* C8 as stated: every successful update_particle, also one whose body has
\* no field, sets the updated timestamp to the time of the call.
C8_AlwaysRefreshed ==
    [][ ( /\ ServiceStep
          /\ ret'.op = "update"
          /\ ret'.kind = "ok" )
        => particles'[ret'.id].updated = isoformat(utcnow) ]_vars

\* C8 (amended): a successful update_particle whose body has at least one
\* field sets the updated timestamp to the time of the call, also when no
\* field value changes; a body without any field leaves the row, and with
\* it the updated timestamp, as it was.
C8_RefreshedWhenFieldPresent ==
    [][ ( /\ ServiceStep
          /\ ret'.op = "update"
          /\ ret'.kind = "ok" )
        => IF has_update_fields(ret'.req)
           THEN particles'[ret'.id].updated = isoformat(utcnow)
           ELSE particles' = particles ]_vars

\* an update that repeated the stored values was applied after the clock
\* had advanced past the creation
C8_Witness ==
    /\ ret.op = "update"
    /\ ret.kind = "ok"
    /\ ret.req.title = "T" /\ ret.req.content = "C"
    /\ ret.req.tags = <<<<"a">>, <<"b", "-", "1">>>>
    /\ ret.req.section = "Projects"
    /\ particles[ret.id].title = "T"
    /\ particles[ret.id].updated = isoformat(utcnow)
    /\ particles[ret.id].updated # particles[ret.id].created

\* C9: update_particle on an id for which no row matches id and owner
\* raises ServiceError with a message containing "not found" (HTTP 404),
\* returns no particle and leaves the store unchanged.
C9_UpdateNotFound ==
    [][ ( /\ ServiceStep
          /\ ret'.op = "update"
          /\ ~ \E i \in DOMAIN particles :
                  i = ret'.id /\ particles[i].user = ret'.user )
        => /\ ret'.kind = "ServiceError"
           /\ contains_not_found(ret'.msg)
           /\ ret'.status = 404
           /\ ret'.value = <<>>
           /\ particles' = particles ]_vars

\* an update of a deleted id was refused while another particle was stored
C9_Witness ==
    /\ ret.op = "update"
    /\ ret.kind = "ServiceError"
    /\ ret.status = 404
    /\ ret.id \in deleted
    /\ particles # <<>>

C11_DeleteNoRow ==
    [][ ( /\ ServiceStep
          /\ ret'.op = "delete"
          /\ where_id_user(particles, ret'.id, ret'.user) = {} )
        => /\ ret'.kind = "ServiceError"
           /\ ret'.status = 404
           /\ ret'.value = <<>>
           /\ particles' = particles
           /\ deleted' = deleted ]_vars

\* the owner deleted the same id a second time while another particle was
\* stored
C11_Witness ==
    /\ ret.op = "delete"
    /\ ret.kind = "ServiceError"
    /\ ret.id \in deleted
    /\ ret.user \in DOMAIN users
    /\ particles # <<>>

\* C12: after any sequence of create, update and delete by any users,
\* get_particle_stats(u) returns a mapping with exactly the keys Projects,
\* Areas, Resources, Archives and total; each section's value is the number
\* of stored particles of u in that section, total is their sum and the
\* number of particles of u; for a user without particles all five are 0.
C12_StatsCounts ==
    \A u \in Usernames :
        LET out == get_particle_stats_outcome(particles, u)
            stats == out.value
        IN /\ out.kind = "ok"
           /\ DOMAIN stats = Sections \cup {"total"}
           /\ \A s \in Sections :
                 stats[s] = Cardinality({i \in owned(u) : particles[i].section = s})
           /\ stats["total"] = stats["Projects"] + stats["Areas"]
                                  + stats["Resources"] + stats["Archives"]
           /\ stats["total"] = Cardinality(owned(u))
           /\ (ret.op = "stats" /\ ret.user = u) => ret.value = stats
           /\ owned(u) = {} => \A k \in DOMAIN stats : stats[k] = 0

\* statistics were returned for a user with particles in two sections, one
\* of them moved there by an update, next to a particle of another user
C12_Witness ==
    /\ ret.op = "stats"
    /\ ret.value["total"] = 2
    /\ ret.value["Archives"] = 1
    /\ \E i \in DOMAIN particles : particles[i].user # ret.user

\* C13: tag normalization is idempotent: for every tag list that
\* ParticleCreate.validate_tags accepts, applying it to its own result
\* yields that result again.
C13_NormalizationIdempotent ==
    (validated.model = "ParticleCreate" /\ "tags" \in DOMAIN validated.body)
    => LET once == validate_tags(validated.body.tags)
       IN once.kind = "ok"
          => /\ validate_tags(once.value) = once
             /\ ParticleCreate_tags(validated.body.tags).kind = "ok"
                   => ParticleCreate_tags(once.value) = Ok(once.value)

\* a list was accepted in which normalization stripped a tag, dropped an
\* empty one and removed a duplicate that differs in case
C13_Witness ==
    /\ validated.model = "ParticleCreate"
    /\ validated.out.kind = "ok"
    /\ "tags" \in DOMAIN validated.body
    /\ Len(validated.body.tags) = 2
    /\ Len(validated.out.value.tags) = 1
    /\ validated.body.tags[1] # validated.out.value.tags[1]

\* C14: for every accepted tag list the result holds each trimmed non-empty
\* tag at most once under case-insensitive comparison, with the casing of
\* its first occurrence and in the order of the first occurrences.
C14_FirstOccurrences ==
    (validated.model = "ParticleCreate" /\ validated.out.kind = "ok"
        /\ "tags" \in DOMAIN validated.body)
    => LET raw == validated.body.tags
           trimmed == [k \in DOMAIN raw |-> strip(raw[k])]
           first == {k \in DOMAIN raw :
                       /\ trimmed[k] # <<>>
                       /\ \A j \in 1..(k - 1) : lower(trimmed[j]) # lower(trimmed[k])}
           nth(n) == CHOOSE k \in first : Cardinality({j \in first : j < k}) = n - 1
           tags == validated.out.value.tags
       IN /\ Len(tags) = Cardinality(first)
          /\ \A n \in DOMAIN tags : tags[n] = trimmed[nth(n)]
          /\ \A n, m \in DOMAIN tags : n # m => lower(tags[n]) # lower(tags[m])

\* three tags were given, the first in upper case and a later one equal to
\* it but for the case: two tags remain, the first as it was written
C14_Witness ==
    /\ validated.model = "ParticleCreate"
    /\ validated.out.kind = "ok"
    /\ "tags" \in DOMAIN validated.body
    /\ Len(validated.body.tags) = 3
    /\ Len(validated.out.value.tags) = 2
    /\ validated.out.value.tags[1] = <<"A">>
    /\ validated.body.tags[3] = <<" ", "a", "\t">>

\* C15: a ParticleCreate body whose tags list has more than
\* max_tags_per_particle entries is rejected with a validation error, also
\* when dropping empty tags and duplicates would leave no more than that.
C15_LimitOnRawList ==
    (validated.model = "ParticleCreate" /\ "tags" \in DOMAIN validated.body
        /\ Len(validated.body.tags) > max_tags_per_particle)
    => /\ validated.out.kind = "ValidationError"
       /\ validated.out.value = <<>>

\* eleven entries of which ten remain after normalization were rejected
C15_Witness ==
    /\ validated.model = "ParticleCreate"
    /\ "tags" \in DOMAIN validated.body
    /\ Len(validated.body.tags) = max_tags_per_particle + 1
    /\ validate_tags(validated.body.tags).kind = "ok"
    /\ Len(validate_tags(validated.body.tags).value) = max_tags_per_particle
    /\ validated.out.kind = "ValidationError"

\* C16 (as claimed): ParticleUpdate accepts a tags list and a section exactly
\* when ParticleCreate accepts them, and both then hold the same normalized
\* values.
C16_UpdateValidatesAsCreate ==
    (validated.model = "ParticleUpdate"
        /\ {"tags", "section"} \subseteq DOMAIN validated.body)
    => LET create == ParticleCreate_outcome(validated.body)
           update == validated.out
       IN /\ (create.kind = "ok") <=> (update.kind = "ok")
          /\ create.kind = "ok" => create.value = update.value

\* C17: create_particle(data, owner) for a registered owner returns the
\* stored record: its id was never assigned before, user is the owner,
\* created equals updated, title, content and section are the input's, tags
\* are the input's normalized tags, and a get_particle_by_id(id, owner)
\* that follows returns the same record.
C17_CreateReturnsStored ==
    [][ ( /\ ServiceStep
          /\ ret'.op = "create"
          /\ ret'.user \in DOMAIN users )
        => /\ ret'.kind = "ok"
           /\ ret'.status = 201
           /\ Len(ret'.value) = 1
           /\ LET p == ret'.value[1]
                  d == ret'.req
              IN /\ p.id = ret'.id
                 /\ p.id \notin 1..seq
                 /\ p.id \notin DOMAIN particles \cup deleted
                 /\ p.id \in DOMAIN particles'
                 /\ p.user = ret'.user
                 /\ p.created = p.updated
                 /\ p.created = isoformat(utcnow)
                 /\ p.title = d.title /\ p.content = d.content
                 /\ p.section = d.section
                 /\ ParticleCreate_tags(d.tags) = Ok(d.tags)
                 /\ p.tags = d.tags
                 /\ p = ParticleResponse(particles', p.id)
                 /\ get_particle_by_id_outcome(particles', p.id, p.user) = Ok(<<p>>)
                 /\ \A i \in DOMAIN particles :
                       i \in DOMAIN particles' /\ particles'[i] = particles[i] ]_vars

\* a particle with two tags was created after an earlier one had been
\* deleted, and the record with the new id was returned
C17_Witness ==
    /\ ret.op = "create"
    /\ ret.kind = "ok"
    /\ deleted # {}
    /\ ret.id \in DOMAIN particles
    /\ Len(ret.value[1].tags) = 2
    /\ \A i \in deleted : i < ret.id

\* the response of a call as the client sees it
Seen(r) == [kind |-> r.kind, msg |-> r.msg, value |-> r.value,
            status |-> r.status, detail |-> r.detail]

\* C19: login issues a token only when the username exists and the
\* password verifies against its stored hash; otherwise the response is 401
\* "Incorrect username or password", the same for a username that does not
\* exist and for a wrong password, and the token table is left as it was.
C19_LoginGate ==
    [][ (ServiceStep /\ ret'.op = "login") =>
          LET u == ret'.user
              p == ret'.req.password
          IN IF /\ u \in DOMAIN users
                /\ \A backend \in Backends :
                      verify_password(p, users[u].password_hash, backend)
             THEN /\ ret'.status = 200
                  /\ DOMAIN tokens' \ DOMAIN tokens = {ret'.value[1].access_token}
                  /\ tokens'[ret'.value[1].access_token].username = u
             ELSE /\ Seen(ret') = [kind |-> "HTTPException", msg |-> IncorrectLogin,
                                   value |-> <<>>, status |-> 401,
                                   detail |-> IncorrectLogin]
                  /\ tokens' = tokens
                  /\ issued' = issued ]_vars

\* a login with a wrong password was refused for a registered user while
\* a token of an earlier login was in the table
C19_Witness ==
    /\ ret.op = "login"
    /\ ret.status = 401
    /\ ret.user \in DOMAIN users
    /\ tokens # <<>>

\* the calls that have returned
Returned(calls) == {w \in Workers : calls[w].phase = "done"}

\* C20: usernames are unique.  A create_user whose INSERT runs while the
\* username has a row ends in ServiceError "Username already exists", and
\* no step changes the password hash or the created timestamp of a row that
\* exists; when two create_user calls for the same username have both
\* returned, however their steps interleaved, exactly one of them succeeded
\* and the row is the one that call wrote.
C20_UniqueUsernames ==
    [][ /\ \A u \in DOMAIN users : u \in DOMAIN users' /\ users'[u] = users[u]
        /\ \A w \in Workers :
              ( /\ inflight[w].phase = "hashed"
                /\ inflight'[w].phase # "hashed"
                /\ writer = 0
                /\ inflight[w].username \in DOMAIN users )
              => /\ inflight'[w].phase = "done"
                 /\ inflight'[w].out = Raise("ServiceError", "Username already exists")
                 /\ users' = users
        /\ ( /\ Returned(inflight') = Workers
             /\ inflight'[1].username = inflight'[2].username )
           => \E w \in Workers :
                /\ inflight'[w].out.kind = "ok"
                /\ \A v \in Workers \ {w} : inflight'[v].out.kind # "ok"
                /\ users'[inflight'[w].username] =
                      [password_hash |-> inflight'[w].password_hash,
                       created |-> inflight'[w].created] ]_vars

\* two registrations of one username with different passwords both began
\* while the username was free; both have returned, the second to reach
\* the INSERT with "Username already exists"
C20_Witness ==
    /\ Returned(inflight) = Workers
    /\ inflight[1].username = inflight[2].username
    /\ inflight[1].password # inflight[2].password
    /\ inflight[1].free /\ inflight[2].free
    /\ inflight[2].out.kind = "ok"
    /\ inflight[1].out = Raise("ServiceError", "Username already exists")

\* the operations of the routes declared with Depends(get_current_user)
GatedOps == {"create", "list", "get", "update", "delete", "stats", "me", "logout"}

\* a request to a gated route was answered in this step
GateStep ==
    /\ aret'.op = "get_current_user"
    /\ ret'.op \in GatedOps
    /\ now' = now
    /\ utcnow' = utcnow

\* C18: a gated route reaches its service only with the username the token
\* table holds for the presented token, and only while that token is in the
\* table and not expired; for a token that is absent, revoked or expired the
\* answer is 401, nothing is stored or deleted, and the token table loses at
\* most the presented token, and that only when it was expired.
C18_AccessGate ==
    [][ GateStep =>
          LET token == aret'.token
              live == /\ token \in DOMAIN tokens
                      /\ ~is_token_expired(tokens[token], now)
          IN IF live
             THEN /\ ret'.user = tokens[token].username
                  /\ ret'.user = issued[token].username
                  /\ aret'.user = ret'.user
                  /\ ret'.status # 401
             ELSE /\ ret'.status = 401
                  /\ ret'.detail = Unauthorized
                  /\ ret'.kind = "HTTPException"
                  /\ ret'.value = <<>>
                  /\ ret'.user = None
                  /\ UNCHANGED <<users, particles, seq, scan, deleted, particles_fts>>
                  /\ UNCHANGED <<issued, revoked>>
                  /\ tokens' = Restrict(tokens, DOMAIN tokens \ {token})
                  /\ (tokens' # tokens => is_token_expired(tokens[token], now)) ]_vars

\* a delete was refused with 401 for an expired token of the particle's
\* owner: the token was evicted, the particle and the owner's other token
\* stayed
C18_Witness ==
    /\ ret.op = "delete"
    /\ ret.status = 401
    /\ aret.op = "get_current_user"
    /\ aret.token \in DOMAIN issued
    /\ aret.token \notin DOMAIN tokens
    /\ aret.token \notin revoked
    /\ \E i \in DOMAIN particles : particles[i].user = issued[aret.token].username
    /\ \E t \in DOMAIN tokens : tokens[t].username = issued[aret.token].username

\* C21: for all passwords P, hash_password(P) gives a hash against which P
\* verifies and no other password Q does, and two calls of hash_password(P)
\* give different hashes.
C21_HashVerify ==
    LET pm == password_manager
    IN /\ \A k \in DOMAIN pm.hashes : pm.hashes[k].kind = "ok"
       /\ Len(pm.hashes) = 2 => pm.hashes[1] # pm.hashes[2]
       /\ pm.verified # <<>> => pm.verified = <<TRUE, FALSE>>

\* C22: a validate_token(T) that returns a username sets T's last_used to
\* the current time and changes nothing else: T stays in the table with its
\* username and created timestamp, and every other entry is as it was.
C22_ValidateFrame ==
    [][ (aret'.op = "validate_token" /\ now' = now /\ aret'.user # None) =>
          LET T == aret'.token
          IN /\ T \in DOMAIN tokens
             /\ DOMAIN tokens' = DOMAIN tokens
             /\ tokens'[T].last_used = now
             /\ tokens'[T].username = tokens[T].username
             /\ tokens'[T].created = tokens[T].created
             /\ aret'.user = tokens[T].username
             /\ \A t \in DOMAIN tokens \ {T} : tokens'[t] = tokens[t]
             /\ issued' = issued
             /\ revoked' = revoked ]_vars

\* a token was validated later than it was created, while another token,
\* last used before that, was in the table
C22_Witness ==
    /\ aret.op = "validate_token"
    /\ aret.user # None
    /\ aret.token \in DOMAIN tokens
    /\ tokens[aret.token].last_used = now
    /\ tokens[aret.token].created < now
    /\ \E t \in DOMAIN tokens \ {aret.token} : tokens[t].last_used < now

\* C23: is_token_expired(record) is True exactly when the record is empty,
\* has no created timestamp, or now - created > expire_hours * 3600; a
\* token whose age is exactly expire_hours * 3600 seconds is not expired.
C23_ExpiredExactly ==
    aret.op = "is_token_expired" =>
        LET record == aret.token_data
        IN aret.expired <=>
             \/ record = <<>>
             \/ "created" \notin DOMAIN record
             \/ now - record.created > token_expire_hours * 3600

\* a record whose age is exactly the limit was found not expired
C23_Witness ==
    /\ aret.op = "is_token_expired"
    /\ "created" \in DOMAIN aret.token_data
    /\ now - aret.token_data.created = token_expire_hours * 3600
    /\ ~aret.expired

\* C24: revoke_token(T) returns True and removes T exactly when T is in the
\* table at the call, otherwise it returns False and changes nothing; every
\* other entry is unchanged, and a revoke_token(T) that follows another
\* revoke_token(T) returns False.
C24_RevokeToken ==
    [][ (aret'.op = "revoke_token" /\ now' = now) =>
          LET T == aret'.token
          IN /\ aret'.count = (IF T \in DOMAIN tokens THEN 1 ELSE 0)
             /\ DOMAIN tokens' = DOMAIN tokens \ {T}
             /\ \A t \in DOMAIN tokens' : tokens'[t] = tokens[t]
             /\ (T \notin DOMAIN tokens => tokens' = tokens)
             /\ ((aret.op = "revoke_token" /\ aret.token = T)
                    => aret'.count = 0) ]_vars

\* a token revoked before was revoked again: False, and the other token
\* stayed in the table
C24_Witness ==
    /\ aret.op = "revoke_token"
    /\ aret.count = 0
    /\ aret.token \in revoked
    /\ tokens # <<>>

\* C25: cleanup_expired_tokens removes every token that is expired at the
\* call and no other, leaves the remaining entries unchanged, and returns
\* the number it removed.
C25_CleanupFrame ==
    [][ (aret'.op = "cleanup_expired_tokens" /\ now' = now) =>
          LET old == {t \in DOMAIN tokens :
                         now - tokens[t].created > expire_seconds}
          IN /\ DOMAIN tokens' = DOMAIN tokens \ old
             /\ \A t \in DOMAIN tokens' : tokens'[t] = tokens[t]
             /\ aret'.count = Cardinality(old)
             /\ issued' = issued ]_vars

\* a cleanup removed an expired token that had been used in its last
\* second, and kept a token that was not expired
C25_Witness ==
    /\ aret.op = "cleanup_expired_tokens"
    /\ aret.count >= 1
    /\ tokens # <<>>
    /\ \E t \in DOMAIN issued \ (DOMAIN tokens \cup revoked) :
          now - issued[t].created > expire_seconds

\* C30: get_active_sessions returns the number of entries that are not
\* expired at the call and changes nothing: expired entries stay in the
\* table and no timestamp is written.
C30_ActiveSessionsReadOnly ==
    [][ (aret'.op = "get_active_sessions" /\ now' = now) =>
          /\ aret'.count = Cardinality({t \in DOMAIN tokens :
                               now - tokens[t].created <= expire_seconds})
          /\ tokens' = tokens
          /\ issued' = issued
          /\ revoked' = revoked ]_vars

\* sessions were counted while the table held an expired entry and one that
\* was not expired: the count is 1 and both entries are still there
C30_Witness ==
    /\ aret.op = "get_active_sessions"
    /\ aret.count = 1
    /\ Cardinality(DOMAIN tokens) = 2
    /\ \E t \in DOMAIN tokens : is_token_expired(tokens[t], now)

\* C29: list_particles(u, section=s, search_query=q) returns exactly the
\* particles of u whose section is s (when s is given) and whose title or
\* content contains q as a case-insensitive substring (when q is given);
\* when nothing matches the result is an empty list and no error.
C29_SectionAndSearch ==
    (ret.op = "list" /\ "search_query" \in DOMAIN ret.page) =>
        LET s == ret.page.section
            q == ret.page.search_query
            \* sub occurs in str as a run of characters, letters compared
            \* without case
            contains_ignoring_case(str, sub) ==
                \E k \in 0..(Len(str) - Len(sub)) :
                    lower(SubSeq(str, k + 1, k + Len(sub))) = lower(sub)
            matching == {i \in DOMAIN particles :
                            /\ particles[i].user = ret.user
                            /\ (section_given(s) => particles[i].section = s)
                            /\ (search_given(q) =>
                                   \/ contains_ignoring_case(particles[i].title, q[1])
                                   \/ contains_ignoring_case(particles[i].content, q[1]))}
        IN /\ ret.kind = "ok"
           /\ {ret.value[k].id : k \in DOMAIN ret.value} = matching
           /\ Len(ret.value) = Cardinality(matching)

\* C26: a block on a connection of DatabaseManager (context manager,
\* get_db_session, execute_query) that ends without exception leaves its
\* writes committed; a block in which an exception is raised before the
\* commit, a logic error of the caller included, leaves the table as it
\* was when the block began: none of its rows is visible and every row
\* committed before is still there.
C26_CommitOrRollback ==
    db_manager.phase = "done" =>
        LET stmts == db_manager.statements
            before == db_manager.before
            on(u) == {k \in DOMAIN stmts : stmts[k].username = u}
            last(u) == CHOOSE k \in on(u) : \A j \in on(u) : j <= k
        IN IF db_manager.exc = ""
           THEN \A u \in Usernames :
                   IF on(u) = {}
                   THEN /\ u \in DOMAIN users <=> u \in DOMAIN before
                        /\ u \in DOMAIN before => users[u] = before[u]
                   ELSE /\ u \in DOMAIN users <=> stmts[last(u)].op = "INSERT"
                        /\ u \in DOMAIN users => users[u].password_hash = NoHash
           ELSE users = before

\* a get_db_session block deleted a registered user, inserted another row
\* and then raised a logic error: the error left the block as DatabaseError
\* and the registered user is still there
C26_Witness ==
    /\ db_manager.phase = "done"
    /\ db_manager.form = "get_db_session"
    /\ db_manager.exc = "DatabaseError"
    /\ Len(db_manager.statements) = 2
    /\ db_manager.statements[1].op = "DELETE"
    /\ db_manager.statements[1].username \in DOMAIN users
    /\ db_manager.statements[2].op = "INSERT"

\* C27: a failure of the database layer during a repository operation
\* (create, get, list, update, delete, stats) reaches the caller as the
\* generic database error: the call does not return a payload (an empty
\* list, zero-filled stats) and does not raise a raw exception of the
\* engine.
C27_FailureReported ==
    "fault" \in DOMAIN ret.page =>
        /\ ret.kind # "ok"
        /\ ret.kind \notin {"OperationalError", "IntegrityError",
                             "sqlite3.DatabaseError"}

\* C28: when validate_token(T) calls and a revoke_token(T) interleave, the
\* last_used of T never decreases, and no validate_token(T) that started
\* after revoke_token(T) had returned True returns a username.
C28_Linearizable ==
    [][ /\ \A T \in DOMAIN tokens \cap DOMAIN tokens' :
              tokens'[T].last_used >= tokens[T].last_used
        /\ \A w \in Workers :
              (inflight'[w].phase = "returned" /\ inflight'[w].after_revoke)
                  => inflight'[w].out = None ]_vars

\* C31: validate_token(T) on an expired token T removes T and returns None;
\* every other entry stays as it was, other expired tokens included.
C31_ExpiredEvictedAlone ==
    [][ ( /\ aret'.op = "validate_token"
          /\ now' = now
          /\ aret'.token \in DOMAIN tokens
          /\ now - tokens[aret'.token].created > expire_seconds )
        => /\ aret'.user = None
           /\ DOMAIN tokens' = DOMAIN tokens \ {aret'.token}
           /\ \A t \in DOMAIN tokens' : tokens'[t] = tokens[t] ]_vars

\* an expired token was validated and evicted while another expired token
\* is still in the table
C31_Witness ==
    /\ aret.op = "validate_token"
    /\ aret.user = None
    /\ aret.token \in DOMAIN issued \ (DOMAIN tokens \cup revoked)
    /\ \E t \in DOMAIN tokens : now - tokens[t].created > expire_seconds

\* C32: when create_token(u) returns T, the table holds T with username u
\* and with created and last_used set at the call, and holds no entry that
\* was expired when the call's sweep ran.
C32_CreateStoresAndSweeps ==
    [][ (aret'.op = "create_token" /\ now' = now) =>
          LET T == aret'.token
          IN /\ T \notin DOMAIN tokens
             /\ T \in DOMAIN tokens'
             /\ tokens'[T] = [username |-> aret'.user, created |-> now,
                              last_used |-> now]
             /\ \A t \in DOMAIN tokens' :
                   now - tokens'[t].created <= expire_seconds ]_vars

\* a token was created while the table held an expired one, which is gone
C32_Witness ==
    /\ aret.op = "create_token"
    /\ aret.token \in DOMAIN tokens
    /\ tokens[aret.token].created = now
    /\ \E t \in DOMAIN issued \ (DOMAIN tokens \cup revoked) :
          now - issued[t].created > expire_seconds

\* C33: create_token(u) neither removes nor alters a token that is not
\* expired, whoever owns it; all tokens of one user that are not expired
\* validate to that user at the same time.
C33_MultiSession ==
    [][ /\ (aret'.op = "create_token" /\ now' = now) =>
              \A t \in DOMAIN tokens :
                  now - tokens[t].created <= expire_seconds
                      => t \in DOMAIN tokens' /\ tokens'[t] = tokens[t]
        /\ \A t \in DOMAIN tokens' :
              now' - tokens'[t].created <= expire_seconds
                  => validate_token_result(tokens', t, now') = tokens'[t].username ]_vars

\* a second token was issued to a user whose first token is still in the
\* table and was used before
C33_Witness ==
    /\ aret.op = "create_token"
    /\ \E t \in DOMAIN tokens \ {aret.token} :
          /\ tokens[t].username = aret.user
          /\ tokens[t].last_used > tokens[t].created
          /\ validate_token_result(tokens, t, now) = aret.user
    /\ validate_token_result(tokens, aret.token, now) = aret.user

\* C40: a validate_token(T) made more than expire_seconds after the
\* creation of T returns None, whenever T was used last.
C40_LifetimeFixed ==
    [][ ( /\ aret'.op = "validate_token"
          /\ now' = now
          /\ aret'.token \in DOMAIN issued
          /\ now - issued[aret'.token].created > expire_seconds )
        => /\ aret'.user = None
           /\ aret'.token \notin DOMAIN tokens'
           /\ (aret'.token \in DOMAIN tokens =>
                  \A used \in Instants :
                      validate_token_result(
                          [tokens EXCEPT ![aret'.token].last_used = used],
                          aret'.token, now) = None) ]_vars

\* a token was rejected one second after the end of its life, on the second
\* day of the run, without having been revoked
C40_Witness ==
    /\ aret.op = "validate_token"
    /\ aret.user = None
    /\ aret.token \in DOMAIN issued \ revoked
    /\ now - issued[aret.token].created = expire_seconds + 1

C39_IdentityFixed ==
    [][ /\ \A i \in DOMAIN particles \cap DOMAIN particles' :
              /\ particles'[i].user = particles[i].user
              /\ particles'[i].created = particles[i].created
        /\ (ServiceStep /\ ret'.op = "update" /\ ret'.kind = "ok") =>
              /\ ret'.id \in DOMAIN particles
              /\ ret'.value[1].id = ret'.id
              /\ ret'.value[1].user = particles[ret'.id].user
              /\ ret'.value[1].user = ret'.user
              /\ ret'.value[1].created = particles[ret'.id].created ]_vars

\* an update with fields was applied some time after the creation: updated
\* has moved on, created has not
C39_Witness ==
    /\ ret.op = "update"
    /\ ret.kind = "ok"
    /\ has_update_fields(ret.req)
    /\ ret.id \in DOMAIN particles
    /\ particles[ret.id].updated # particles[ret.id].created
    /\ particles[ret.id].updated = isoformat(utcnow)
    /\ ret.value[1].created = particles[ret.id].created

\* C37: the section of every stored particle is one of Projects, Areas,
\* Resources, Archives, spelled exactly so: a create or an update that
\* carries any other value, "projects" included, is rejected and leaves the
\* store as it was.
C37_SectionsClosed ==
    [][ LET four == {"Projects", "Areas", "Resources", "Archives"}
            body == validated'.body
        IN /\ \A i \in DOMAIN particles' : particles'[i].section \in four
           /\ ( /\ ret'.op \in {"create", "update"}
                /\ validated'.model \in {"ParticleCreate", "ParticleUpdate"}
                /\ "section" \in DOMAIN body
                /\ body.section \notin four )
              => /\ ret'.kind = "ValidationError"
                 /\ ret'.status = 422
                 /\ particles' = particles
                 /\ seq' = seq ]_vars

\* an update to "projects" was rejected; the particle is still in Areas
C37_Witness ==
    /\ validated.model = "ParticleUpdate"
    /\ validated.body = [section |-> "projects"]
    /\ ret.op = "update"
    /\ ret.status = 422
    /\ ret.id \in DOMAIN particles
    /\ particles[ret.id].section = "Areas"
    /\ particles[ret.id].user = ret.user

(***************************************************************************)
(* update_particle while another request deletes (services.py)             *)
(***************************************************************************)
\* update_particle reads the row, builds the statement, and then opens a
\* session for the UPDATE: three statements against the database, each
\* committed on its own.  Another process that serves the same database file
\* may commit between any two of them.

\* a request handler that runs no update
NotUpdating == [phase |-> "idle", id |-> 0, username |-> None,
                particle_data |-> NoBody, updated |-> 0]

\* existing = self.get_particle_by_id(particle_id, username); the SET clause;
\* datetime.utcnow().isoformat()
update_particle_check(w, particle_id, particle_data, username) ==
    LET existing == get_particle_by_id_outcome(particles, particle_id, username)
    IN /\ inflight[w].phase = "idle"
       /\ IF existing.kind # "ok" \/ ~has_update_fields(particle_data)
          THEN /\ ret' = Ret("update", particle_id, username, particle_data,
                             NoPage, existing, update_particle_route(existing))
               /\ UNCHANGED inflight
          ELSE /\ inflight' = [inflight EXCEPT ![w] =
                      [phase |-> "checked", id |-> particle_id,
                       username |-> username, particle_data |-> particle_data,
                       updated |-> utcnow]]
               /\ UNCHANGED ret
       /\ UNCHANGED <<utcnow, users, particles, seq, scan, deleted, particles_fts>>
       /\ UNCHANGED <<validated, writer, password_manager, db_manager>>
       /\ UNCHANGED avars

\* the ServiceError raised for rowcount = 0 leaves the session block through
\* get_db_session, which raises DatabaseError for every exception that is not
\* an sqlite3 one; update_particle reports a DatabaseError as a failed update
update_rowcount_zero == Raise("ServiceError", "Failed to update particle")

\* cursor = db.execute(UPDATE ...); db.commit(); if cursor.rowcount == 0: raise
update_particle_execute(w) ==
    LET c == inflight[w]
        rowcount == Cardinality(where_id_user(particles, c.id, c.username))
    IN /\ c.phase = "checked"
       /\ particles' = update_table(particles, c.id, c.username,
                                    c.particle_data, isoformat(c.updated))
       /\ particles_fts' = after_update(particles_fts, particles, particles',
                              where_id_user(particles, c.id, c.username))
       /\ IF rowcount = 0
          THEN /\ ret' = Ret("update", c.id, c.username, c.particle_data, NoPage,
                             update_rowcount_zero,
                             update_particle_route(update_rowcount_zero))
               /\ inflight' = [inflight EXCEPT ![w] = NotUpdating]
          ELSE /\ inflight' = [inflight EXCEPT ![w].phase = "updated"]
               /\ UNCHANGED ret
       /\ UNCHANGED <<utcnow, users, seq, scan, deleted>>
       /\ UNCHANGED <<validated, writer, password_manager, db_manager>>
       /\ UNCHANGED avars

\* return self.get_particle_by_id(particle_id, username), inside the block:
\* its ServiceError leaves through get_db_session as well
update_particle_reread(w) ==
    LET c == inflight[w]
        row == get_particle_by_id_outcome(particles, c.id, c.username)
        out == IF row.kind = "ok" THEN row
               ELSE update_rowcount_zero
    IN /\ c.phase = "updated"
       /\ ret' = Ret("update", c.id, c.username, c.particle_data, NoPage,
                     out, update_particle_route(out))
       /\ inflight' = [inflight EXCEPT ![w] = NotUpdating]
       /\ UNCHANGED <<utcnow, users, particles, seq, scan, deleted, particles_fts>>
       /\ UNCHANGED <<validated, writer, password_manager, db_manager>>
       /\ UNCHANGED avars

\* no handler runs an update
OverlapStart ==
    /\ AuthInit
    /\ RepoInit
    /\ validated = Request([section |-> ""])
    /\ inflight = [w \in Workers |-> NotUpdating]
    /\ writer = 0
    /\ password_manager = Unused
    /\ db_manager = Closed

\* updates of two handlers, in steps, with deletes of the owner in between
OverlapNext ==
    \/ Register("alice")
    \/ \E d \in CreateInputs : seq < MaxUpdated + 1 /\ create_particle(d, "alice")
    \/ \E w \in Workers, i \in 1..(MaxUpdated + 1), d \in {NoBody, TitleOnly} :
          update_particle_check(w, i, d, "alice")
    \/ \E w \in Workers : update_particle_execute(w)
    \/ \E w \in Workers : update_particle_reread(w)
    \/ \E i \in DOMAIN particles : delete_particle(i, particles[i].user)
    \/ \E t \in 0..MaxMicros : RepoTick(t)

SpecOverlap == OverlapStart /\ [][OverlapNext]_vars

\* C35: when the owner's delete_particle(id) commits between the existence
\* check of update_particle and its UPDATE statement, so that the UPDATE
\* affects no row, update_particle reports the not-found outcome (a
\* ServiceError whose message says "not found", answered 404), the same as
\* for an id that never existed, and the particle stays deleted
C35_UpdateOfDeleted ==
    [][ \A w \in Workers :
          ( /\ inflight[w].phase = "checked"
            /\ inflight'[w].phase = "idle"
            /\ inflight[w].id \in deleted
            /\ where_id_user(particles, inflight[w].id, inflight[w].username) = {} )
          => LET never == get_particle_by_id_outcome(particles', seq + 1,
                                                     inflight[w].username)
             IN /\ ret'.op = "update" /\ ret'.id = inflight[w].id
                /\ ret'.kind = "ServiceError"
                /\ contains_not_found(ret'.msg)
                /\ ret'.status = 404
                /\ ret'.kind = never.kind /\ ret'.msg = never.msg
                /\ ret'.status = update_particle_route(never).status
                /\ inflight[w].id \notin DOMAIN particles' ]_vars

\* C36: after any sequence of committed particle inserts, updates and
\* deletes, the full-text index particles_fts holds exactly one entry per row
\* of particles, with rowid equal to the particle id and title/content equal
\* to the row's current title/content, and no entry for a deleted particle
C36_IndexInSync ==
    /\ particles_fts = SetToBag({ fts_entry(i, particles[i].title, particles[i].content) :
                                     i \in DOMAIN particles })
    /\ \A e \in BagToSet(particles_fts) :
          e.rowid \notin deleted /\ CopiesIn(e, particles_fts) = 1

\* the index after an update of one particle and a delete of another
C36_Witness ==
    /\ deleted # {}
    /\ \E i \in DOMAIN particles :
          /\ particles[i].title = "T2"
          /\ particles[i].updated # particles[i].created
          /\ BagIn(fts_entry(i, "T2", particles[i].content), particles_fts)

(***************************************************************************)
(* The token operations under concurrent requests (auth.py)                *)
(***************************************************************************)
\* The routes are coroutines: login (create_token with its sweep) and logout
\* (revoke_user_tokens) run on the thread of the event loop, one at a time.
\* get_current_user is a plain function: validate_token, and revoke_token
\* for an expired token, run on the threads of the pool.  All of them work on
\* the dict tokens without a lock; a thread may be switched at a call and at
\* the end of a loop iteration.

\* the thread of the event loop
Loop == 0

\* the event loop runs no token operation
LoopIdle == [phase |-> "idle", op |-> "", username |-> None, todo |-> {},
             used |-> 0, found |-> {}, out |-> None]

\* tokens.items() in insertion order: tokens are named in the order of issue
first_key(keys) == CHOOSE t \in keys : \A o \in keys : t <= o

\* iter(tokens.items()): the iterator remembers the size of the dict
items_iter(op, username) ==
    [phase |-> "scanning", op |-> op, username |-> username,
     todo |-> DOMAIN tokens, used |-> Cardinality(DOMAIN tokens),
     found |-> {}, out |-> None]

\* tokens[token] = {...}; then cleanup_expired_tokens() starts its scan
loop_create_token(username) ==
    /\ inflight[Loop].phase = "idle"
    /\ \E token \in TokenIds \ DOMAIN issued :
          /\ token = Cardinality(DOMAIN issued) + 1
          /\ tokens' = store_token(tokens, token, username, now)
          /\ issued' = [t \in DOMAIN issued \cup {token} |->
                          IF t = token
                          THEN [username |-> username, created |-> now]
                          ELSE issued[t]]
          /\ inflight' = [inflight EXCEPT ![Loop] =
                [items_iter("create_token", username) EXCEPT
                    !.todo = DOMAIN tokens \cup {token},
                    !.used = Cardinality(DOMAIN tokens \cup {token})]]
    /\ UNCHANGED <<now, revoked, aret>>
    /\ UNCHANGED <<validated, writer, password_manager, db_manager>>
    /\ UNCHANGED rvars

\* revoke_user_tokens(username) starts its scan
loop_revoke_user_tokens(username) ==
    /\ inflight[Loop].phase = "idle"
    /\ inflight' = [inflight EXCEPT ![Loop] =
                       items_iter("revoke_user_tokens", username)]
    /\ UNCHANGED <<validated, writer, password_manager, db_manager>>
    /\ UNCHANGED <<avars, rvars>>

\* the condition of the list comprehension
collects(op, username, token_data, clock) ==
    IF op = "revoke_user_tokens" THEN token_data.username = username
    ELSE is_token_expired(token_data, clock)

\* one step of the list comprehension over tokens.items(): the iterator
\* raises RuntimeError("dictionary changed size during iteration") when the
\* size is not the one it remembers
items_next(w) ==
    LET c == inflight[w]
    IN /\ c.phase = "scanning"
       /\ inflight' = [inflight EXCEPT ![w] =
             IF Cardinality(DOMAIN tokens) # c.used
             THEN [c EXCEPT !.phase = "raised", !.out = "RuntimeError"]
             ELSE IF c.todo = {} THEN [c EXCEPT !.phase = "deleting"]
             ELSE LET t == first_key(c.todo)
                  IN [c EXCEPT !.todo = c.todo \ {t},
                               !.found = IF collects(c.op, c.username, tokens[t], now)
                                         THEN c.found \cup {t} ELSE c.found]]
       /\ UNCHANGED <<validated, writer, password_manager, db_manager>>
       /\ UNCHANGED <<avars, rvars>>

\* for token in ...: del tokens[token] ; return len(...)
del_next(w) ==
    LET c == inflight[w]
    IN /\ c.phase = "deleting"
       /\ IF c.found = {}
          THEN /\ inflight' = [inflight EXCEPT ![w] = LoopIdle]
               /\ UNCHANGED <<tokens, revoked>>
          ELSE LET t == first_key(c.found)
               IN IF t \in DOMAIN tokens
                  THEN /\ tokens' = Restrict(tokens, DOMAIN tokens \ {t})
                       /\ revoked' = revoked \cup {t}
                       /\ inflight' = [inflight EXCEPT ![w].found = c.found \ {t}]
                  ELSE /\ inflight' = [inflight EXCEPT ![w].phase = "raised",
                                                       ![w].out = "KeyError"]
                       /\ UNCHANGED <<tokens, revoked>>
       /\ UNCHANGED <<now, issued, aret>>
       /\ UNCHANGED <<validated, writer, password_manager, db_manager>>
       /\ UNCHANGED rvars

\* if self.is_token_expired(token_data):
validate_token_expired(w) ==
    /\ inflight[w].phase = "got"
    /\ inflight' = [inflight EXCEPT ![w].phase =
          IF is_token_expired(inflight[w].token_data[1], now)
          THEN "expired" ELSE "checked"]
    /\ UNCHANGED <<validated, writer, password_manager, db_manager>>
    /\ UNCHANGED <<avars, rvars>>

\* revoke_token: if token in tokens: username = tokens[token].get(...)
revoke_token_in(w) ==
    /\ inflight[w].phase = "expired"
    /\ inflight' = [inflight EXCEPT ![w].phase =
          IF inflight[w].token \in DOMAIN tokens THEN "found" ELSE "returned"]
    /\ UNCHANGED <<validated, writer, password_manager, db_manager>>
    /\ UNCHANGED <<avars, rvars>>

\* revoke_token: del tokens[token] raises KeyError for a key that is gone
revoke_token_del(w) ==
    /\ inflight[w].phase = "found"
    /\ IF inflight[w].token \in DOMAIN tokens
       THEN /\ tokens' = revoke_token_table(tokens, inflight[w].token)
            /\ revoked' = revoked \cup {inflight[w].token}
            /\ inflight' = [inflight EXCEPT ![w].phase = "returned"]
       ELSE /\ inflight' = [inflight EXCEPT ![w].phase = "raised",
                                            ![w].out = "KeyError"]
            /\ UNCHANGED <<tokens, revoked>>
    /\ UNCHANGED <<now, issued, aret>>
    /\ UNCHANGED <<validated, writer, password_manager, db_manager>>
    /\ UNCHANGED rvars

\* the exception leaves the operation; the thread takes the next request
internal_error(w) ==
    /\ inflight[w].phase = "raised"
    /\ inflight' = [inflight EXCEPT ![w] = IF w = Loop THEN LoopIdle ELSE Resting]
    /\ UNCHANGED <<validated, writer, password_manager, db_manager>>
    /\ UNCHANGED <<avars, rvars>>

\* no thread runs a call
ThreadsStart ==
    /\ AuthInit
    /\ RepoInit
    /\ validated = Request([section |-> ""])
    /\ inflight = [w \in Workers \cup {Loop} |-> IF w = Loop THEN LoopIdle ELSE Resting]
    /\ writer = 0
    /\ password_manager = Unused
    /\ db_manager = Closed

\* logins and logouts on the event loop beside token validations on two
\* threads of the pool; a call takes no time, the clock advances between calls
ThreadsNext ==
    \/ loop_create_token("alice")
    \/ loop_revoke_user_tokens("alice")
    \/ items_next(Loop)
    \/ del_next(Loop)
    \/ \E w \in Workers, t \in TokenIds : validate_token_get(w, t)
    \/ \E w \in Workers : validate_token_expired(w)
    \/ \E w \in Workers : revoke_token_in(w)
    \/ \E w \in Workers : revoke_token_del(w)
    \/ \E w \in Workers : validate_token_time(w)
    \/ \E w \in Workers : validate_token_store(w)
    \/ \E w \in Workers : validate_token_done(w)
    \/ \E w \in Workers \cup {Loop} : internal_error(w)
    \/ (\A w \in DOMAIN inflight : inflight[w].phase = "idle") /\ Tick

SpecThreads == ThreadsStart /\ [][ThreadsNext]_vars

\* C34: under any interleaving of concurrent requests, create_token (with
\* its sweep), validate_token, revoke_token, revoke_user_tokens and
\* cleanup_expired_tokens complete without an internal error: removing an
\* entry that another request has just removed is a no-op, and scanning the
\* table while another request inserts or removes an entry does not fail
C34_NoInternalError ==
    \A w \in DOMAIN inflight : inflight[w].phase # "raised"


====
